---- MODULE Spec2Model ----
(***************************************************************************)
(* A model of the MNet dataset pipeline: the adaptive chunked ingestion    *)
(* dispatcher (db-ingest.js) and the local/cloud cache reconciler          *)
(* (data.js, auto-open-all.js, ui-auth.js).                                *)
(*                                                                         *)
(* A feature collection is the index range lo..hi-1 of its features: a     *)
(* slice of features[] is a sub-range [lo, hi).                            *)
(***************************************************************************)
EXTENDS Integers, Sequences, FiniteSets, TLC

\* ------------------------------------------------------------------------
\* Bounds of the model
\* ------------------------------------------------------------------------

\* The feature counts of an ingested collection: every count up to MaxSmall,
\* and the counts k * MIN_CHUNK_SIZE + d for k up to MaxSlices and d up to
\* MaxExtra (collections of several floor-sized slices).
MaxSmall == 9
MaxSlices == 2
MaxExtra == 3

\* Number of direct invocations of migrateLocalToCloud, or of
\* openAllDatasets, that may overlap in one behaviour.
MaxRuns == 2
\* Number of changes other clients make to the datasets table.
MaxRemoteChanges == 1
\* Number of sign-ins and sign-outs in one behaviour.
MaxAuthChanges == 2
\* Number of anonymous entries in the store when a migration starts.
MaxEntries == 2

\* the field features an upload or a stored dataset is drawn from
MaxFields == 8
\* Number of files handled during one load of the page.
MaxUploads == 2
\* Number of features of a collection a mapping is applied to.
MaxMapped == 2
\* Number of files of a batch.
MaxBatch == 2
\* Number of features of a collection that is normalised.
MaxNormalized == 2
MaxStarted == 2

\* ------------------------------------------------------------------------
\* db-ingest.js (adaptive revision): constants and pure helpers
\* ------------------------------------------------------------------------

DEFAULT_CHUNK_SIZE == 250
MIN_CHUNK_SIZE == 50

Max(a, b) == IF a >= b THEN a ELSE b
Min(a, b) == IF a <= b THEN a ELSE b

\* The chunkSize values a caller passes in the options object; {} is the
\* call that passes no option.
ChunkOptions ==
  { {}, {0 - 7}, {0}, {MIN_CHUNK_SIZE}, {MIN_CHUNK_SIZE + 1},
    {2 * MIN_CHUNK_SIZE}, {DEFAULT_CHUNK_SIZE} }

\* { chunkSize = DEFAULT_CHUNK_SIZE } = {}
FeatureCounts ==
  (0 .. MaxSmall)
    \cup { k * MIN_CHUNK_SIZE + d : k \in 1 .. MaxSlices, d \in 0 .. MaxExtra }
    \cup { DEFAULT_CHUNK_SIZE }

ChunkSizeOf(option) ==
  IF option = {} THEN DEFAULT_CHUNK_SIZE ELSE CHOOSE n \in option : TRUE

\* The error objects the remote bulk call rejects with.
RemoteErrors ==
  { [ code |-> "57014", message |-> "" ],
    [ code |-> "57000", message |-> "" ],
    [ code |-> "", message |-> "canceling statement due to statement timeout" ],
    [ code |-> "42501", message |-> "permission denied for table fields" ],
    [ code |-> "", message |-> "" ] }

\* /statement timeout/i.test(message)
MatchesStatementTimeout(message) ==
  message \in { "canceling statement due to statement timeout" }

isStatementTimeout(error) ==
  \/ error.code = "57014"
  \/ error.code = "57000"
  \/ MatchesStatementTimeout(error.message)

\* a variant of EffectiveChunk without the floor of MIN_CHUNK_SIZE
EffectiveChunkWithoutFloor(chunkSize) == Max(0, chunkSize)

\* const effectiveChunk = Math.max(MIN_CHUNK_SIZE, chunkSize)
EffectiveChunk(chunkSize) == Max(MIN_CHUNK_SIZE, chunkSize)

\* const nextChunk = Math.max(MIN_CHUNK_SIZE, Math.floor(effectiveChunk / 2))
NextChunk(effectiveChunk) == Max(MIN_CHUNK_SIZE, effectiveChunk \div 2)

MidpointFloor(n) == n \div 2

\* const midpoint = Math.ceil(features.length / 2)
Midpoint(n) == (n + 1) \div 2

ShouldBisectAnyError(error, effectiveChunk, n) ==
  effectiveChunk > MIN_CHUNK_SIZE /\ n >= 2

\* a variant of ShouldBisect that goes on at the floor
ShouldBisectAtFloor(error, effectiveChunk, n) ==
  isStatementTimeout(error) /\ n >= 2

\* the negation of the rethrow condition of the catch block
ShouldBisect(error, effectiveChunk, n) ==
  ~ ( \/ ~ isStatementTimeout(error)
      \/ effectiveChunk <= MIN_CHUNK_SIZE
      \/ n < 2 )

\* ------------------------------------------------------------------------
\* State
\* ------------------------------------------------------------------------

VARIABLES
  \* --- ingestFeatureCollection ---
  revision,     \* "adaptive" (halving on timeout) or "fixed" (fixed batches)
  ingPhase,     \* "idle", "running", "done": the top-level invocation
  nFeatures,    \* featureCollection.features.length of the invocation
  optChunk,     \* the chunkSize option of the invocation, {} when absent
  stack,        \* the activation records of the recursion, innermost last
  rpc,          \* the remote bulk call in flight, if any
  ret,          \* the settled promise the innermost awaiting frame resumes with
  outcome,      \* how the top-level invocation ended
  accepted,     \* remote endpoint: number of features it has accepted
  callLog,      \* every remote call issued, in order of issue
  \* --- local cache and session (data.js, ui-auth.js) ---
  dataRev,      \* the revision of data.js in use
  session,      \* the user of the auth session, NoUser when anonymous
  store,        \* the idb-keyval store: key -> value, for the keys present
  tasks,        \* the asynchronous invocations under way, by slot
  remoteSubmits,\* remote store: successful submissions per dataset name
  reported,     \* the migration counts shown to the user, in order
  authChanges,  \* number of sign-ins and sign-outs so far
  remoteRows,   \* remote store: the rows of the user in the datasets table
  lastFetch,    \* per user, the rows of the last select that succeeded
  opened,       \* the rows drawn on the map (window._openedDatasetLayers)
  currentUserId,\* ui-auth.js: the user id updateUserUI has recorded
  registered,   \* whether the auth-state callback is registered
  history,      \* what has happened so far: sign-ins, failures, saves
  \* --- uploads and fingerprints (layer-upload.js) ---
  upload,       \* the file being handled: its stem and its feature collection
  table,        \* remote store: the dataset rows the fingerprints are read from
  datasetFingerprintCache, \* the fingerprint list in memory, or none
  uploadSignature, \* findMatchingDataset: the signature built of the upload
  matched,      \* what findMatchingDataset returned
  uploadResult, \* handleFile: the result record of the upload
  matchPhase,   \* handleFile: the await it is at ("idle" before a file,
                \* "ready" with the fingerprints loaded, "done" at its return)
  uploadHistory,\* ghost: what earlier uploads wrote and what the latest
                \* matching was given
  \* --- attribute mapping (layer-upload.js, the revision with the mapper) ---
  applyInput,   \* applyMappingToFeatureCollection: the collection and the mapping
  applyOutput,  \* what it returned: { collection, dropped }
  files,        \* processFiles: the files of the batch
  batchPhase,   \* processFiles: "idle" before the call, the await it is at
                \* ("parse", "dialog", "getUser", "ingest", "settled" when
                \* handleFile has resolved), "returned" after it
  batch,        \* processFiles: the index of the file and the counters
  fileState,    \* handleFile: result, normalised and currentUser
  storedMapping,\* localStorage: the entry under ATTRIBUTE_STORAGE_KEY
  sessionAttributeMapping, \* the mapping confirmed or reused last
  mapperDialog, \* the attribute mapper: open or not, and what it shows
  lastUploadedLayer, \* window._lastUploadedLayer: the file drawn, 0 for none
  batchLog,     \* ghost: alerts, toasts, renders, events and ingests so far
  \* --- normalizeFeatureCollection ---
  normalizeInput,  \* the collection it is called with
  normalizeOutput  \* what it returned, and what it returned for that

ingInput == << revision, nFeatures, optChunk >>

ingestVars ==
  << ingPhase, ingInput, stack, rpc, ret, outcome, accepted, callLog >>

syncVars ==
  << dataRev, session, store, tasks, remoteSubmits, reported, authChanges,
     remoteRows, lastFetch, opened, currentUserId, registered, history >>

uploadVars ==
  << upload, table, datasetFingerprintCache, uploadSignature, matched,
     uploadResult,
     matchPhase, uploadHistory >>

batchVars ==
  << files, batchPhase, batch, fileState, storedMapping,
     sessionAttributeMapping, mapperDialog, lastUploadedLayer, batchLog >>

pureVars == << normalizeInput, normalizeOutput >>

mapperVars == << applyInput, applyOutput, batchVars, pureVars >>

vars == << ingestVars, syncVars, uploadVars, mapperVars >>

NoError == [ code |-> "", message |-> "none" ]
NoRet == [ kind |-> "none", value |-> 0, error |-> NoError ]
NoRpc == [ state |-> "none", lo |-> 0, hi |-> 0, ok |-> FALSE, data |-> 0,
           error |-> NoError ]

Frame(lo, hi, chunkSize) ==
  [ lo |-> lo, hi |-> hi, chunkSize |-> chunkSize, pc |-> "entry",
    effectiveChunk |-> 0, i |-> 0, total |-> 0, leftCount |-> 0 ]

Top == stack[Len(stack)]
Pop(s) == SubSeq(s, 1, Len(s) - 1)
SetTop(s, f) == [ s EXCEPT ![Len(s)] = f ]
SetLast(log, result) == [ log EXCEPT ![Len(log)].result = result ]

IngestInit ==
  /\ revision = "adaptive"
  /\ ingPhase = "idle"
  /\ nFeatures = 0
  /\ optChunk = {}
  /\ stack = << >>
  /\ rpc = NoRpc
  /\ ret = NoRet
  /\ outcome = NoRet
  /\ accepted = 0
  /\ callLog = << >>

\* ------------------------------------------------------------------------
\* ingestFeatureCollection, one action per stretch between two awaits
\* ------------------------------------------------------------------------

\* A caller invokes ingestFeatureCollection(dataset_id, layer_id, fc, options).
Invoke(n, option) ==
  /\ ingPhase = "idle"
  /\ ingPhase' = "running"
  /\ revision' = "adaptive"
  /\ nFeatures' = n
  /\ optChunk' = option
  /\ stack' = << Frame(0, n, ChunkSizeOf(option)) >>
  /\ UNCHANGED << rpc, ret, outcome, accepted, callLog >>
  /\ UNCHANGED << syncVars, uploadVars, mapperVars >>

\* features.slice(i, i + effectiveChunk) of the collection [lo, hi)
LoopSlice(f, i) == [ lo |-> i, hi |-> Min(i + f.effectiveChunk, f.hi) ]

\* features.slice(0, midpoint)
LeftHalf(lo, hi) == [ lo |-> lo, hi |-> lo + Midpoint(hi - lo) ]

\* a variant of RightHalf that takes the whole collection again
RightHalfWhole(lo, hi) == [ lo |-> lo, hi |-> hi ]

\* features.slice(midpoint)
RightHalf(lo, hi) == [ lo |-> lo + Midpoint(hi - lo), hi |-> hi ]

BisectOrderRightFirst(lo, hi) == << RightHalf(lo, hi), LeftHalf(lo, hi) >>

\* The two halves in the order the catch block awaits them: leftCount is
\* awaited before the call for rightCount is made.
BisectOrder(lo, hi) == << LeftHalf(lo, hi), RightHalf(lo, hi) >>

BisectSumRightOnly(leftCount, rightCount) == rightCount

\* return leftCount + rightCount
BisectSum(leftCount, rightCount) == leftCount + rightCount

AwaitRejectedSwallow(f, error) ==
  [ kind |-> "value", value |-> f.total, error |-> NoError ]

\* None of the awaits of a recursive call sits in a try block: a rejected
\* child rejects the awaiting invocation with the same error.
AwaitRejected(f, error) == [ kind |-> "error", value |-> 0, error |-> error ]

\* Function entry up to its first await or return.
Enter ==
  /\ revision = "adaptive"
  /\ ingPhase = "running"
  /\ ret.kind = "none"
  /\ stack # << >>
  /\ Top.pc = "entry"
  /\ LET f == Top
         n == f.hi - f.lo
         eff == EffectiveChunk(f.chunkSize)
     IN IF n = 0
        THEN /\ stack' = Pop(stack)
             /\ ret' = [ kind |-> "value", value |-> 0, error |-> NoError ]
             /\ UNCHANGED << rpc, callLog >>
        ELSE IF n > eff
        THEN LET g == [ f EXCEPT !.pc = "loop", !.effectiveChunk = eff,
                                 !.i = f.lo, !.total = 0 ]
                 sl == LoopSlice(g, g.i)
             IN /\ stack' = Append(SetTop(stack, g), Frame(sl.lo, sl.hi, eff))
                /\ UNCHANGED << rpc, ret, callLog >>
        ELSE /\ stack' = SetTop(stack, [ f EXCEPT !.pc = "rpc",
                                                  !.effectiveChunk = eff ])
             /\ rpc.state = "none"
             /\ rpc' = [ NoRpc EXCEPT !.state = "sent", !.lo = f.lo, !.hi = f.hi ]
             /\ callLog' = Append(callLog, [ lo |-> f.lo, hi |-> f.hi,
                                             chunk |-> eff, result |-> "pending" ])
             /\ UNCHANGED ret
  /\ UNCHANGED << ingPhase, ingInput, outcome, accepted >>
  /\ UNCHANGED << syncVars, uploadVars, mapperVars >>

\* The remote procedure ingest_featurecollection answers the call in flight:
\* it accepts the whole payload and returns its row count, or rejects it whole.
RemoteAccepts ==
  /\ rpc.state = "sent"
  /\ rpc' = [ rpc EXCEPT !.state = "replied", !.ok = TRUE, !.data = rpc.hi - rpc.lo ]
  /\ accepted' = accepted + (rpc.hi - rpc.lo)
  /\ UNCHANGED << ingPhase, ingInput, stack, ret, outcome, callLog >>
  /\ UNCHANGED << syncVars, uploadVars, mapperVars >>

RemoteRejects(error) ==
  /\ rpc.state = "sent"
  /\ rpc' = [ rpc EXCEPT !.state = "replied", !.ok = FALSE, !.error = error ]
  /\ UNCHANGED << ingPhase, ingInput, stack, ret, outcome, accepted,
                  callLog >>
  /\ UNCHANGED << syncVars, uploadVars, mapperVars >>

\* await callRpc(...) settles: return its data, or the catch block.
RpcSettle ==
  /\ revision = "adaptive"
  /\ ingPhase = "running"
  /\ stack # << >>
  /\ Top.pc = "rpc"
  /\ rpc.state = "replied"
  /\ LET f == Top
         n == f.hi - f.lo
     IN IF rpc.ok
        THEN /\ stack' = Pop(stack)
             /\ ret' = [ kind |-> "value", value |-> rpc.data, error |-> NoError ]
             /\ callLog' = SetLast(callLog, "ok")
        ELSE IF ShouldBisect(rpc.error, f.effectiveChunk, n)
        THEN LET l == BisectOrder(f.lo, f.hi)[1]
             IN /\ stack' = Append(SetTop(stack, [ f EXCEPT !.pc = "left" ]),
                                   Frame(l.lo, l.hi, NextChunk(f.effectiveChunk)))
                /\ ret' = NoRet
                /\ callLog' = SetLast(callLog, "bisected")
        ELSE /\ stack' = Pop(stack)
             /\ ret' = [ kind |-> "error", value |-> 0, error |-> rpc.error ]
             /\ callLog' = SetLast(callLog, "thrown")
  /\ rpc' = NoRpc
  /\ UNCHANGED << ingPhase, ingInput, outcome, accepted >>
  /\ UNCHANGED << syncVars, uploadVars, mapperVars >>

\* An awaited recursive call has settled and the awaiting invocation resumes.
Resume ==
  /\ revision = "adaptive"
  /\ ingPhase = "running"
  /\ ret.kind # "none"
  /\ stack # << >>
  /\ LET f == Top
     IN IF ret.kind = "error"
        THEN /\ stack' = Pop(stack)
             /\ ret' = AwaitRejected(f, ret.error)
        ELSE IF f.pc = "loop"
        THEN LET g == [ f EXCEPT !.total = f.total + ret.value,
                                 !.i = f.i + f.effectiveChunk ]
             IN IF g.i < g.hi
                THEN LET sl == LoopSlice(g, g.i)
                     IN /\ stack' = Append(SetTop(stack, g),
                                           Frame(sl.lo, sl.hi, g.effectiveChunk))
                        /\ ret' = NoRet
                ELSE /\ stack' = Pop(stack)
                     /\ ret' = [ kind |-> "value", value |-> g.total,
                                 error |-> NoError ]
        ELSE IF f.pc = "left"
        THEN LET r == BisectOrder(f.lo, f.hi)[2]
             IN /\ stack' = Append(SetTop(stack, [ f EXCEPT !.pc = "right",
                                                    !.leftCount = ret.value ]),
                                   Frame(r.lo, r.hi, NextChunk(f.effectiveChunk)))
                /\ ret' = NoRet
        ELSE /\ f.pc = "right"
             /\ stack' = Pop(stack)
             /\ ret' = [ kind |-> "value",
                         value |-> BisectSum(f.leftCount, ret.value),
                         error |-> NoError ]
  /\ UNCHANGED << ingPhase, ingInput, rpc, outcome, accepted, callLog >>
  /\ UNCHANGED << syncVars, uploadVars, mapperVars >>

\* The top-level invocation settles towards its caller.
Finish ==
  /\ ingPhase = "running"
  /\ ret.kind # "none"
  /\ stack = << >>
  /\ ingPhase' = "done"
  /\ outcome' = ret
  /\ ret' = NoRet
  /\ UNCHANGED << ingInput, stack, rpc, accepted, callLog >>
  /\ UNCHANGED << syncVars, uploadVars, mapperVars >>

\* ------------------------------------------------------------------------
\* db-ingest.js (fixed-batch revision): ingestFeatureCollection
\* ------------------------------------------------------------------------

FIXED_DEFAULT_CHUNK_SIZE == 1000

\* The chunkSize values passed to the fixed-batch revision; {} passes none.
FixedChunkOptions == { {}, {3}, {MIN_CHUNK_SIZE} }

\* { chunkSize = 1000 } = {}
FixedChunkSizeOf(option) ==
  IF option = {} THEN FIXED_DEFAULT_CHUNK_SIZE ELSE CHOOSE n \in option : TRUE

FixedInvoke(n, option) ==
  /\ ingPhase = "idle"
  /\ ingPhase' = "running"
  /\ revision' = "fixed"
  /\ nFeatures' = n
  /\ optChunk' = option
  /\ stack' = << Frame(0, n, FixedChunkSizeOf(option)) >>
  /\ UNCHANGED << rpc, ret, outcome, accepted, callLog >>
  /\ UNCHANGED << syncVars, uploadVars, mapperVars >>

\* features.slice(i, i + chunkSize)
FixedSlice(f, i) == [ lo |-> i, hi |-> Min(i + f.chunkSize, f.hi) ]

FixedCall(sl, chunk) ==
  /\ rpc.state = "none"
  /\ rpc' = [ NoRpc EXCEPT !.state = "sent", !.lo = sl.lo, !.hi = sl.hi ]
  /\ callLog' = Append(callLog, [ lo |-> sl.lo, hi |-> sl.hi, chunk |-> chunk,
                                  result |-> "pending" ])

\* Function entry up to the first callRpc.
FixedEnter ==
  /\ revision = "fixed"
  /\ ingPhase = "running"
  /\ ret.kind = "none"
  /\ stack # << >>
  /\ Top.pc = "entry"
  /\ LET f == Top
         n == f.hi - f.lo
     IN IF n = 0
        THEN /\ stack' = Pop(stack)
             /\ ret' = [ kind |-> "value", value |-> 0, error |-> NoError ]
             /\ UNCHANGED << rpc, callLog >>
        ELSE IF n > f.chunkSize
        THEN LET g == [ f EXCEPT !.pc = "loop", !.i = f.lo, !.total = 0 ]
             IN /\ stack' = SetTop(stack, g)
                /\ FixedCall(FixedSlice(g, g.i), f.chunkSize)
                /\ UNCHANGED ret
        ELSE /\ stack' = SetTop(stack, [ f EXCEPT !.pc = "rpc" ])
             /\ FixedCall([ lo |-> f.lo, hi |-> f.hi ], f.chunkSize)
             /\ UNCHANGED ret
  /\ UNCHANGED << ingPhase, ingInput, outcome, accepted >>
  /\ UNCHANGED << syncVars, uploadVars, mapperVars >>

\* await callRpc(...) settles; neither call site is inside a try block.
FixedSettle ==
  /\ revision = "fixed"
  /\ ingPhase = "running"
  /\ stack # << >>
  /\ Top.pc \in { "rpc", "loop" }
  /\ rpc.state = "replied"
  /\ LET f == Top
     IN IF ~ rpc.ok
        THEN /\ stack' = Pop(stack)
             /\ ret' = AwaitRejected(f, rpc.error)
             /\ callLog' = SetLast(callLog, "thrown")
             /\ rpc' = NoRpc
        ELSE IF f.pc = "rpc"
        THEN /\ stack' = Pop(stack)
             /\ ret' = [ kind |-> "value", value |-> rpc.data, error |-> NoError ]
             /\ callLog' = SetLast(callLog, "ok")
             /\ rpc' = NoRpc
        ELSE LET g == [ f EXCEPT !.total = f.total + rpc.data,
                                 !.i = f.i + f.chunkSize ]
                 sl == FixedSlice(g, g.i)
             IN IF g.i < g.hi
                THEN /\ stack' = SetTop(stack, g)
                     /\ rpc' = [ NoRpc EXCEPT !.state = "sent", !.lo = sl.lo,
                                              !.hi = sl.hi ]
                     /\ callLog' = Append(SetLast(callLog, "ok"),
                                          [ lo |-> sl.lo, hi |-> sl.hi,
                                            chunk |-> f.chunkSize,
                                            result |-> "pending" ])
                     /\ ret' = NoRet
                ELSE /\ stack' = Pop(stack)
                     /\ ret' = [ kind |-> "value", value |-> g.total,
                                 error |-> NoError ]
                     /\ callLog' = SetLast(callLog, "ok")
                     /\ rpc' = NoRpc
  /\ UNCHANGED << ingPhase, ingInput, outcome, accepted >>
  /\ UNCHANGED << syncVars, uploadVars, mapperVars >>

IngestNext ==
  \/ \E n \in FeatureCounts, option \in ChunkOptions : Invoke(n, option)
  \/ \E n \in FeatureCounts, option \in FixedChunkOptions : FixedInvoke(n, option)
  \/ Enter
  \/ FixedEnter
  \/ FixedSettle
  \/ RemoteAccepts
  \/ \E error \in RemoteErrors : RemoteRejects(error)
  \/ RpcSettle
  \/ Resume
  \/ Finish

\* ------------------------------------------------------------------------
\* data.js: keys and values of the local store
\* ------------------------------------------------------------------------

\* A string is the sequence of its ":"-separated segments: "mnet:anon:a" is
\* << "mnet", "anon", "a" >>, and a prefix that ends in ":" is the sequence of
\* the segments before that colon.
LOCAL_PREFIX == << "mnet", "anon" >>
LEGACY_LOCAL_PREFIX == << "mnet" >>
CLOUD_PREFIX == << "mnet", "cloud" >>

NoUser == "none"
Users == { "u1" }
\* an owner who used this browser before and left entries in the cache
OtherOwner == "u2"
Names == { << "a" >>, << "b" >> }
\* The names uploaded during one load of the page.
UploadNames == { << "a" >> }
DatasetIds == { "d1", "d2" }
Versions == { "v1", "v2" }

\* key.startsWith(prefix), for a prefix that ends in ":"
StartsWith(key, prefix) ==
  /\ Len(key) > Len(prefix)
  /\ SubSeq(key, 1, Len(prefix)) = prefix

\* key.slice(prefix.length)
SliceAfter(key, prefix) == SubSeq(key, Len(prefix) + 1, Len(key))

localKey(name) == LOCAL_PREFIX \o name
legacyKey(name) == LEGACY_LOCAL_PREFIX \o name
cloudKey(userId, datasetId) == CLOUD_PREFIX \o << userId, datasetId >>
\* const prefix = `${CLOUD_PREFIX}${userId}:`
cloudPrefix(userId) == CLOUD_PREFIX \o << userId >>

isCloudKey(key) == StartsWith(key, CLOUD_PREFIX)

\* a variant of isLocalKey that takes every key under "mnet:" for a local one
isLocalKeyAnyPrefix(key) == StartsWith(key, LEGACY_LOCAL_PREFIX)

isLocalKey(key) ==
  \/ StartsWith(key, LOCAL_PREFIX)
  \/ (StartsWith(key, LEGACY_LOCAL_PREFIX) /\ ~ isCloudKey(key))

localNameFromKey(key) ==
  IF StartsWith(key, LOCAL_PREFIX)
  THEN SliceAfter(key, LOCAL_PREFIX)
  ELSE SliceAfter(key, LEGACY_LOCAL_PREFIX)

\* The first revision of data.js has the single prefix "mnet:".
\* keys.filter(k => k.startsWith(LOCAL_PREFIX)), k.slice(LOCAL_PREFIX.length)
IsMigratable(rev, key) ==
  IF rev = "keyval" THEN StartsWith(key, LEGACY_LOCAL_PREFIX) ELSE isLocalKey(key)
MigrationName(rev, key) ==
  IF rev = "keyval" THEN SliceAfter(key, LEGACY_LOCAL_PREFIX)
  ELSE localNameFromKey(key)
\* The key saveDataset writes for an anonymous user.
SaveKey(rev, name) == IF rev = "keyval" THEN legacyKey(name) ELSE localKey(name)

\* Values of the store. kind: "fc" a FeatureCollection object, "fcText" its
\* JSON text, "other" any other object, "cloud" a cached row of the datasets
\* table (id and geojson), "undefined" what get() gives for a missing key.
Value(kind, content) == [ kind |-> kind, id |-> "", content |-> content ]
Undefined == Value("undefined", "")
\* The geojson an upload hands to saveDataset.
Uploaded == Value("fc", "g1")
\* What an anonymous save may have left under a name: only the
\* grower-hierarchy revision looks at the value before submitting it.
AnonValues(rev) ==
  IF rev = "hierarchy" THEN { Uploaded, Value("other", "g1") }
  ELSE { Uploaded }

\* A row of the datasets table is << id, version of its geojson >>.
\* set(cloudKey(userId, ds.id), { id: ds.id, name, geojson, updated_at })
CloudValue(row) == [ kind |-> "cloud", id |-> row[1], content |-> row[2] ]
\* value && value.geojson, and the row that loadCachedCloudDatasets pushes
IsCachedRow(value) == value.kind = "cloud"
RowOf(value) == << value.id, value.content >>

\* keys() of idb-keyval lists the keys in ascending key order.
KeysInOrder ==
  << << "mnet", "a" >>, << "mnet", "anon", "a" >>, << "mnet", "anon", "b" >>,
     << "mnet", "b" >>, << "mnet", "cloud", "u1", "d1" >>,
     << "mnet", "cloud", "u1", "d2" >>, << "mnet", "cloud", "u2", "d1" >> >>
AllKeys == { KeysInOrder[i] : i \in 1 .. Len(KeysInOrder) }
IsPresent(key) == key \in DOMAIN store
keys == SelectSeq(KeysInOrder, IsPresent)

\* get(key), set(key, value), del(key) of idb-keyval
Get(key) == IF key \in DOMAIN store THEN store[key] ELSE Undefined
Set(key, value) ==
  [ k \in (DOMAIN store) \cup { key } |-> IF k = key THEN value ELSE store[k] ]
Del(key) == [ k \in (DOMAIN store) \ { key } |-> store[k] ]

\* loadDataset(name) without a session: the entry under the current prefix,
\* or else the one under the legacy prefix
LoadDatasetAnon(name) ==
  IF Get(localKey(name)) # Undefined THEN Get(localKey(name))
  ELSE Get(legacyKey(name))

Range(seq) == { seq[i] : i \in 1 .. Len(seq) }

\* The rows the cloud-scope entries of an owner hold.
CloudRowsOf(userId) ==
  { RowOf(store[k]) : k \in { c \in DOMAIN store : StartsWith(c, cloudPrefix(userId)) } }

\* The contents of the datasets table of a user: at most one row per id.
RemoteContents ==
  { rows \in SUBSET (DatasetIds \X Versions) :
      \A r1 \in rows, r2 \in rows : r1[1] = r2[1] => r1 = r2 }

\* ------------------------------------------------------------------------
\* Asynchronous invocations
\* ------------------------------------------------------------------------

\* One slot per invocation that can be under way: the page handler, an
\* upload, and one auth-state callback per session change and for the
\* initial session.
TaskIds == 1 .. (MaxAuthChanges + 3)

\* kind: "migrate" and "open" are direct invocations of migrateLocalToCloud
\* and openAllDatasets, "boot" the DOMContentLoaded handler of ui-auth.js,
\* "callback" an invocation of the auth-state callback, "save" the
\* mnet:dataset handler of data-bridge.js.
IdleTask ==
  [ kind |-> "none", pc |-> "idle", user |-> NoUser, name |-> << >>,
    keysLeft |-> << >>, stored |-> Undefined, moved |-> 0,
    startKeys |-> {}, attempted |-> {}, submitted |-> {}, deleted |-> {},
    failed |-> {},
    forceRefresh |-> FALSE, rows |-> {}, source |-> "", data |-> {},
    fetched |-> FALSE, fetchError |-> FALSE, pending |-> {},
    results |-> {}, lcRet |-> "", prevUser |-> NoUser, storeError |-> "" ]

\* by: the invocation whose select it was
NoFetch == [ fetched |-> FALSE, rows |-> {}, by |-> 0 ]

\* What has happened so far. overlap: an invocation of openAllDatasets was
\* started while another was under way.
\* busyLogout: the session ended while an invocation was under way.
NoHistory ==
  [ signIns |-> 0, submitFailures |-> 0, savedAnon |-> {}, remoteChanges |-> 0,
    overlap |-> FALSE, busyLogout |-> FALSE ]

SyncInitCommon ==
  /\ remoteSubmits = [ n \in Names |-> 0 ]
  /\ reported = << >>
  /\ authChanges = 0
  /\ lastFetch = [ u \in Users |-> NoFetch ]
  /\ opened = {}
  /\ currentUserId = NoUser
  /\ registered = FALSE
  /\ history = NoHistory

NoTasks == [ t \in TaskIds |-> IdleTask ]

IsFree(tks, t) == tks[t].kind = "none"
HasFree(tks) == \E t \in TaskIds : IsFree(tks, t)
\* The slot a new invocation takes: the lowest free one.
FreeSlot(tks) ==
  CHOOSE t \in TaskIds : IsFree(tks, t) /\ \A o \in TaskIds : o < t => ~ IsFree(tks, o)
CountOf(kind) == Cardinality({ t \in TaskIds : tasks[t].kind = kind })

\* ------------------------------------------------------------------------
\* auto-open-all.js: openAllDatasets, one action per await
\* ------------------------------------------------------------------------

\* How the invocation that awaited openAllDatasets goes on once it has
\* returned: the page handler goes on to register the auth-state callback.
AfterOpen(tk) ==
  [ tk EXCEPT !.pc = IF tk.kind = "boot" THEN "boot_register" ELSE "done" ]

\* window._openedDatasetLayers = groups, when there are rows to draw
OpenedAfter(tk) == IF tk.rows # {} THEN tk.rows ELSE opened

\* loadCachedCloudDatasets has returned tk.results: the three places of
\* openAllDatasets that await it.
AfterLoadCached(tk) ==
  LET g == [ tk EXCEPT !.rows = tk.results, !.keysLeft = << >> ]
  IN IF tk.lcRet = "seed"
     THEN [ g EXCEPT !.source = IF g.rows # {} THEN "cache" ELSE "cloud",
                     !.pc = "open_fetch" ]
     ELSE AfterOpen([ g EXCEPT !.source =
                        IF g.rows # {} THEN "cache"
                        ELSE IF tk.lcRet = "empty" THEN "empty" ELSE "error" ])

\* openAllDatasets calls loadCachedCloudDatasets(user.id)
CallLoadCached(tk, lcRet) ==
  [ tk EXCEPT !.pc = "lc_keys", !.lcRet = lcRet, !.results = {} ]

\* A caller invokes openAllDatasets directly, as the page timer of
\* auto-open-all.js does.
OpenStart(forceRefresh) ==
  /\ HasFree(tasks)
  /\ CountOf("open") < MaxRuns
  /\ tasks' = [ tasks EXCEPT ![FreeSlot(tasks)] =
                  [ IdleTask EXCEPT !.kind = "open", !.pc = "open_getUser",
                                    !.forceRefresh = forceRefresh ] ]
  /\ history' = [ history EXCEPT !.overlap =
                    @ \/ \E t \in TaskIds : tasks[t].pc \notin { "idle", "done" } ]
  /\ UNCHANGED << dataRev, session, store, remoteSubmits, reported, authChanges,
                  remoteRows, lastFetch, opened, currentUserId, registered >>
  /\ UNCHANGED << ingestVars, uploadVars, mapperVars >>

\* const { data: { user } } = await supabase.auth.getUser(); up to the next
\* await: the seeding read of the cache, or the select
OpenGetUser(t) ==
  /\ tasks[t].pc = "open_getUser"
  /\ LET tk == [ tasks[t] EXCEPT !.user = session, !.rows = {},
                                 !.source = "cloud" ]
     IN IF session = NoUser
        THEN /\ tasks' = [ tasks EXCEPT ![t] =
                             AfterOpen([ tk EXCEPT !.source = "anonymous" ]) ]
             /\ UNCHANGED opened
        ELSE /\ tasks' = [ tasks EXCEPT ![t] =
                             IF ~ tk.forceRefresh
                             THEN CallLoadCached(tk, "seed")
                             ELSE [ tk EXCEPT !.pc = "open_fetch" ] ]
             /\ opened' = {}
  /\ UNCHANGED << dataRev, session, store, remoteSubmits, reported, authChanges,
                  remoteRows, lastFetch, currentUserId, registered, history >>
  /\ UNCHANGED << ingestVars, uploadVars, mapperVars >>

\* The select on datasets resolves without error. A request that no longer
\* carries the session of the user gets no rows.
OpenFetchOk(t) ==
  /\ tasks[t].pc = "open_fetch"
  /\ LET data == IF session = tasks[t].user THEN remoteRows ELSE {}
         tk == [ tasks[t] EXCEPT !.data = data,
                                 !.fetched = (session = tasks[t].user) ]
     IN /\ lastFetch' = IF session = tasks[t].user
                        THEN [ lastFetch EXCEPT ![tk.user] =
                                 [ fetched |-> TRUE, rows |-> data, by |-> t ] ]
                        ELSE lastFetch
        /\ IF data # {}
           THEN /\ tasks' = [ tasks EXCEPT ![t] =
                                [ tk EXCEPT !.rows = data, !.source = "cloud",
                                            !.pc = "cc_keys" ] ]
                /\ UNCHANGED opened
           ELSE IF tk.rows = {}
                THEN /\ tasks' = [ tasks EXCEPT ![t] = CallLoadCached(tk, "empty") ]
                     /\ UNCHANGED opened
                ELSE /\ tasks' = [ tasks EXCEPT ![t] = AfterOpen(tk) ]
                     /\ opened' = OpenedAfter(tk)
  /\ UNCHANGED << dataRev, session, store, remoteSubmits, reported, authChanges,
                  remoteRows, currentUserId, registered, history >>
  /\ UNCHANGED << ingestVars, uploadVars, mapperVars >>

\* The select resolves with an error: the catch block.
OpenFetchFails(t) ==
  /\ tasks[t].pc = "open_fetch"
  /\ LET tk == [ tasks[t] EXCEPT !.fetchError = TRUE ]
     IN IF tk.rows = {}
        THEN /\ tasks' = [ tasks EXCEPT ![t] = CallLoadCached(tk, "error") ]
             /\ UNCHANGED opened
        ELSE /\ tasks' = [ tasks EXCEPT ![t] = AfterOpen(tk) ]
             /\ opened' = OpenedAfter(tk)
  /\ UNCHANGED << dataRev, session, store, remoteSubmits, reported, authChanges,
                  remoteRows, lastFetch, currentUserId, registered, history >>
  /\ UNCHANGED << ingestVars, uploadVars, mapperVars >>

\* ------------------------------------------------------------------------
\* data.js: loadCachedCloudDatasets, cacheCloudDatasets, clearCloudCache
\* ------------------------------------------------------------------------

\* const allKeys = await keys(); then the loop up to its first await get(raw)
LcKeys(t) ==
  /\ tasks[t].pc = "lc_keys"
  /\ LET IsMine(k) == StartsWith(k, cloudPrefix(tasks[t].user))
         mine == SelectSeq(keys, IsMine)
         tk == [ tasks[t] EXCEPT !.keysLeft = mine ]
     IN IF mine = << >>
        THEN /\ tasks' = [ tasks EXCEPT ![t] = AfterLoadCached(tk) ]
             /\ opened' = IF AfterLoadCached(tk).pc = "open_fetch" THEN opened
                          ELSE OpenedAfter(AfterLoadCached(tk))
        ELSE /\ tasks' = [ tasks EXCEPT ![t] = [ tk EXCEPT !.pc = "lc_get" ] ]
             /\ UNCHANGED opened
  /\ UNCHANGED << dataRev, session, store, remoteSubmits, reported, authChanges,
                  remoteRows, lastFetch, currentUserId, registered, history >>
  /\ UNCHANGED << ingestVars, uploadVars, mapperVars >>

\* const value = await get(raw); if (value && value.geojson) results.push(value)
LcGet(t) ==
  /\ tasks[t].pc = "lc_get"
  /\ LET value == Get(Head(tasks[t].keysLeft))
         rest == Tail(tasks[t].keysLeft)
         tk == [ tasks[t] EXCEPT
                   !.results = IF IsCachedRow(value) THEN @ \cup { RowOf(value) }
                               ELSE @,
                   !.keysLeft = rest ]
     IN IF rest = << >>
        THEN /\ tasks' = [ tasks EXCEPT ![t] = AfterLoadCached(tk) ]
             /\ opened' = IF AfterLoadCached(tk).pc = "open_fetch" THEN opened
                          ELSE OpenedAfter(AfterLoadCached(tk))
        ELSE /\ tasks' = [ tasks EXCEPT ![t] = tk ]
             /\ UNCHANGED opened
  /\ UNCHANGED << dataRev, session, store, remoteSubmits, reported, authChanges,
                  remoteRows, lastFetch, currentUserId, registered, history >>
  /\ UNCHANGED << ingestVars, uploadVars, mapperVars >>

\* cacheCloudDatasets: const allKeys = await keys(); the removals are issued
CcKeys(t) ==
  /\ tasks[t].pc = "cc_keys"
  /\ tasks' = [ tasks EXCEPT
                  ![t].pending = { k \in Range(keys) :
                                     StartsWith(k, cloudPrefix(tasks[t].user)) },
                  ![t].pc = "cc_dels" ]
  /\ UNCHANGED << dataRev, session, store, remoteSubmits, reported, authChanges,
                  remoteRows, lastFetch, opened, currentUserId, registered,
                  history >>
  /\ UNCHANGED << ingestVars, uploadVars, mapperVars >>

\* One del(raw) of the removals completes.
CcDel(t, k) ==
  /\ tasks[t].pc = "cc_dels"
  /\ k \in tasks[t].pending
  /\ store' = Del(k)
  /\ tasks' = [ tasks EXCEPT ![t].pending = @ \ { k } ]
  /\ UNCHANGED << dataRev, session, remoteSubmits, reported, authChanges,
                  remoteRows, lastFetch, opened, currentUserId, registered,
                  history >>
  /\ UNCHANGED << ingestVars, uploadVars, mapperVars >>

\* await Promise.all(removals) resolves; the writes are issued
CcDelsDone(t) ==
  /\ tasks[t].pc = "cc_dels"
  /\ tasks[t].pending = {}
  /\ tasks' = [ tasks EXCEPT
                  ![t].pending = { cloudKey(tasks[t].user, row[1]) :
                                     row \in tasks[t].data },
                  ![t].pc = "cc_sets" ]
  /\ UNCHANGED << dataRev, session, store, remoteSubmits, reported, authChanges,
                  remoteRows, lastFetch, opened, currentUserId, registered,
                  history >>
  /\ UNCHANGED << ingestVars, uploadVars, mapperVars >>

\* One set(cloudKey(userId, ds.id), ...) of the writes completes.
CcSet(t, k) ==
  /\ tasks[t].pc = "cc_sets"
  /\ k \in tasks[t].pending
  /\ LET row == CHOOSE r \in tasks[t].data : cloudKey(tasks[t].user, r[1]) = k
     IN store' = Set(k, CloudValue(row))
  /\ tasks' = [ tasks EXCEPT ![t].pending = @ \ { k } ]
  /\ UNCHANGED << dataRev, session, remoteSubmits, reported, authChanges,
                  remoteRows, lastFetch, opened, currentUserId, registered,
                  history >>
  /\ UNCHANGED << ingestVars, uploadVars, mapperVars >>

\* await Promise.all(writes) resolves, cacheCloudDatasets returns, and
\* openAllDatasets draws the rows and returns.
CcSetsDone(t) ==
  /\ tasks[t].pc = "cc_sets"
  /\ tasks[t].pending = {}
  /\ tasks' = [ tasks EXCEPT ![t] = AfterOpen(tasks[t]) ]
  /\ opened' = OpenedAfter(tasks[t])
  /\ UNCHANGED << dataRev, session, store, remoteSubmits, reported, authChanges,
                  remoteRows, lastFetch, currentUserId, registered, history >>
  /\ UNCHANGED << ingestVars, uploadVars, mapperVars >>

\* clearCloudCache(previousUserId): const allKeys = await keys(); the
\* removals are issued
ClrKeys(t) ==
  /\ tasks[t].pc = "clr_keys"
  /\ tasks' = [ tasks EXCEPT
                  ![t].pending = { k \in Range(keys) :
                                     StartsWith(k, cloudPrefix(tasks[t].prevUser)) },
                  ![t].pc = "clr_dels" ]
  /\ UNCHANGED << dataRev, session, store, remoteSubmits, reported, authChanges,
                  remoteRows, lastFetch, opened, currentUserId, registered,
                  history >>
  /\ UNCHANGED << ingestVars, uploadVars, mapperVars >>

ClrDel(t, k) ==
  /\ tasks[t].pc = "clr_dels"
  /\ k \in tasks[t].pending
  /\ store' = Del(k)
  /\ tasks' = [ tasks EXCEPT ![t].pending = @ \ { k } ]
  /\ UNCHANGED << dataRev, session, remoteSubmits, reported, authChanges,
                  remoteRows, lastFetch, opened, currentUserId, registered,
                  history >>
  /\ UNCHANGED << ingestVars, uploadVars, mapperVars >>

\* await Promise.all(removals) resolves and the callback returns
ClrDone(t) ==
  /\ tasks[t].pc = "clr_dels"
  /\ tasks[t].pending = {}
  /\ tasks' = [ tasks EXCEPT ![t].pc = "done" ]
  /\ UNCHANGED << dataRev, session, store, remoteSubmits, reported, authChanges,
                  remoteRows, lastFetch, opened, currentUserId, registered,
                  history >>
  /\ UNCHANGED << ingestVars, uploadVars, mapperVars >>

OpenStep(t) ==
  \/ OpenGetUser(t)
  \/ OpenFetchOk(t)
  \/ OpenFetchFails(t)
  \/ LcKeys(t)
  \/ LcGet(t)
  \/ CcKeys(t)
  \/ \E k \in AllKeys : CcDel(t, k)
  \/ CcDelsDone(t)
  \/ \E k \in AllKeys : CcSet(t, k)
  \/ CcSetsDone(t)

\* clearCloudCache(userId) is called for an owner
ClearStart(userId) ==
  /\ HasFree(tasks)
  /\ tasks' = [ tasks EXCEPT ![FreeSlot(tasks)] =
                  [ IdleTask EXCEPT !.kind = "clear", !.pc = "clr_keys",
                                    !.prevUser = userId ] ]
  /\ UNCHANGED << dataRev, session, store, remoteSubmits, reported, authChanges,
                  remoteRows, lastFetch, opened, currentUserId, registered,
                  history >>
  /\ UNCHANGED << ingestVars, uploadVars, mapperVars >>

ClearStep(t) ==
  \/ ClrKeys(t)
  \/ \E k \in AllKeys : ClrDel(t, k)
  \/ ClrDone(t)

\* Another client changes the rows of the user in the datasets table.
RemoteChange(rows) ==
  /\ history.remoteChanges < MaxRemoteChanges
  /\ rows # remoteRows
  /\ remoteRows' = rows
  /\ history' = [ history EXCEPT !.remoteChanges = @ + 1 ]
  /\ UNCHANGED << dataRev, session, store, tasks, remoteSubmits, reported,
                  authChanges, lastFetch, opened, currentUserId, registered >>
  /\ UNCHANGED << ingestVars, uploadVars, mapperVars >>

\* ------------------------------------------------------------------------
\* data.js: migrateLocalToCloud and saveDataset, one action per await
\* ------------------------------------------------------------------------

\* How the invocation that awaited migrateLocalToCloud goes on once it has
\* settled; a direct invocation just ends, the page handler and the callback
\* call openAllDatasets({ forceRefresh: true, fitToBounds: true }).
AfterMigrate(tk, threw) ==
  IF tk.kind = "migrate"
  THEN [ tk EXCEPT !.pc = IF threw THEN "threw" ELSE "done" ]
  ELSE [ tk EXCEPT !.pc = "open_getUser", !.forceRefresh = TRUE ]

\* if (migrated) alert(`Saved ${migrated} local dataset(s) to your account.`)
ReportAfterMigrate(tk, threw) ==
  IF tk.kind # "migrate" /\ ~ threw /\ tk.moved > 0
  THEN Append(reported, tk.moved)
  ELSE reported

\* The loop goes on with the next key, or migrateLocalToCloud returns moved.
NextKey(tk) ==
  LET rest == Tail(tk.keysLeft)
      g == [ tk EXCEPT !.keysLeft = rest, !.stored = Undefined ]
  IN IF rest = << >> THEN AfterMigrate(g, FALSE) ELSE [ g EXCEPT !.pc = "mig_get" ]

ReportNextKey(tk) ==
  IF Tail(tk.keysLeft) = << >> THEN ReportAfterMigrate(tk, FALSE) ELSE reported

\* Whether a failure inside the loop body rejects the whole run: the first
\* revision has no try block around the body.
FailedEntryAborts(rev) == rev = "keyval"

\* The catch block of the loop body: log, and go on with the next key;
\* without a try block the run rejects.
EntryFailed(tk) ==
  LET g == [ tk EXCEPT !.failed = tk.failed \cup { Head(tk.keysLeft) } ]
  IN IF FailedEntryAborts(dataRev)
     THEN AfterMigrate([ g EXCEPT !.keysLeft = << >> ], TRUE)
     ELSE NextKey(g)

ReportEntryFailed(tk) ==
  IF FailedEntryAborts(dataRev) THEN ReportAfterMigrate(tk, TRUE)
  ELSE ReportNextKey(tk)

\* A caller invokes migrateLocalToCloud directly.
MigStart ==
  /\ HasFree(tasks)
  /\ CountOf("migrate") < MaxRuns
  /\ tasks' = [ tasks EXCEPT ![FreeSlot(tasks)] =
                  [ IdleTask EXCEPT !.kind = "migrate", !.pc = "mig_getUser" ] ]
  /\ UNCHANGED << dataRev, session, store, remoteSubmits, reported, authChanges,
                  remoteRows, lastFetch, opened, currentUserId, registered,
                  history >>
  /\ UNCHANGED << ingestVars, uploadVars, mapperVars >>

\* const user = await getUser(); if (!user) return 0;
MigGetUser(t) ==
  /\ tasks[t].pc = "mig_getUser"
  /\ LET tk == [ tasks[t] EXCEPT !.user = session ]
     IN IF session = NoUser
        THEN /\ tasks' = [ tasks EXCEPT ![t] = AfterMigrate(tk, FALSE) ]
             /\ reported' = ReportAfterMigrate(tk, FALSE)
        ELSE /\ tasks' = [ tasks EXCEPT ![t] = [ tk EXCEPT !.pc = "mig_keys" ] ]
             /\ UNCHANGED reported
  /\ UNCHANGED << dataRev, session, store, remoteSubmits, authChanges,
                  remoteRows, lastFetch, opened, currentUserId, registered,
                  history >>
  /\ UNCHANGED << ingestVars, uploadVars, mapperVars >>

\* const allKeys = await keys(); then the loop up to its first await get(rawKey)
MigKeys(t) ==
  /\ tasks[t].pc = "mig_keys"
  /\ LET IsMine(k) == IsMigratable(dataRev, k)
         mine == SelectSeq(keys, IsMine)
         tk == [ tasks[t] EXCEPT !.keysLeft = mine, !.startKeys = Range(mine) ]
     IN IF mine = << >>
        THEN /\ tasks' = [ tasks EXCEPT ![t] = AfterMigrate(tk, FALSE) ]
             /\ reported' = ReportAfterMigrate(tk, FALSE)
        ELSE /\ tasks' = [ tasks EXCEPT ![t] = [ tk EXCEPT !.pc = "mig_get" ] ]
             /\ UNCHANGED reported
  /\ UNCHANGED << dataRev, session, store, remoteSubmits, authChanges,
                  remoteRows, lastFetch, opened, currentUserId, registered,
                  history >>
  /\ UNCHANGED << ingestVars, uploadVars, mapperVars >>

\* stored is a FeatureCollection, or text that parses to one
IsFeatureCollection(value) == value.kind \in { "fc", "fcText" }

\* const stored = await get(rawKey); in the grower-hierarchy revision the
\* validation of stored follows, inside the try block; in the others
\* saveDataset is called and awaits getUser().
MigGet(t) ==
  /\ tasks[t].pc = "mig_get"
  /\ LET k == Head(tasks[t].keysLeft)
         tk == [ tasks[t] EXCEPT !.stored = Get(k),
                                 !.name = MigrationName(dataRev, k),
                                 !.attempted = tasks[t].attempted \cup { k } ]
     IN IF dataRev = "hierarchy"
        THEN IF IsFeatureCollection(tk.stored)
             THEN /\ tasks' = [ tasks EXCEPT ![t] = [ tk EXCEPT !.pc = "submit" ] ]
                  /\ UNCHANGED reported
             ELSE /\ tasks' = [ tasks EXCEPT ![t] = EntryFailed(tk) ]
                  /\ reported' = ReportEntryFailed(tk)
        ELSE /\ tasks' = [ tasks EXCEPT ![t] = [ tk EXCEPT !.pc = "save_getUser" ] ]
             /\ UNCHANGED reported
  /\ UNCHANGED << dataRev, session, store, remoteSubmits, authChanges,
                  remoteRows, lastFetch, opened, currentUserId, registered,
                  history >>
  /\ UNCHANGED << ingestVars, uploadVars, mapperVars >>

\* data-bridge.js: the mnet:dataset handler calls saveDataset(name, geojson)
\* for an upload, which awaits getUser(). A name is uploaded once.
SaveStart(name) ==
  /\ HasFree(tasks)
  /\ \A t \in TaskIds : ~ (tasks[t].kind = "save" /\ tasks[t].name = name)
  /\ tasks' = [ tasks EXCEPT ![FreeSlot(tasks)] =
                  [ IdleTask EXCEPT !.kind = "save", !.pc = "save_getUser",
                                    !.name = name, !.stored = Uploaded ] ]
  /\ UNCHANGED << dataRev, session, store, remoteSubmits, reported, authChanges,
                  remoteRows, lastFetch, opened, currentUserId, registered,
                  history >>
  /\ UNCHANGED << ingestVars, uploadVars, mapperVars >>

\* saveDataset: const user = await getUser(); if (!user) return set(...);
\* otherwise the upsert is sent
SaveGetUser(t) ==
  /\ tasks[t].pc = "save_getUser"
  /\ tasks' = [ tasks EXCEPT ![t].pc =
                  IF session = NoUser THEN "save_set" ELSE "submit" ]
  /\ UNCHANGED << dataRev, session, store, remoteSubmits, reported, authChanges,
                  remoteRows, lastFetch, opened, currentUserId, registered,
                  history >>
  /\ UNCHANGED << ingestVars, uploadVars, mapperVars >>

\* saveDataset without a session: set(localKey(name), geojson) resolves
SaveSet(t) ==
  /\ tasks[t].pc = "save_set"
  /\ store' = Set(SaveKey(dataRev, tasks[t].name), tasks[t].stored)
  /\ tasks' = [ tasks EXCEPT ![t].pc =
                  IF tasks[t].kind = "save" THEN "done" ELSE "mig_del" ]
  /\ history' = IF tasks[t].kind = "save" /\ history.signIns = 0
                THEN [ history EXCEPT !.savedAnon = @ \cup { tasks[t].name } ]
                ELSE history
  /\ UNCHANGED << dataRev, session, remoteSubmits, reported, authChanges,
                  remoteRows, lastFetch, opened, currentUserId, registered >>
  /\ UNCHANGED << ingestVars, uploadVars, mapperVars >>

\* The remote submission resolves: the upsert into datasets of saveDataset, or
\* ingestGrowerHierarchy(fc, { replaceMissing: true }).
SubmitOk(t) ==
  /\ tasks[t].pc = "submit"
  /\ remoteSubmits' = [ remoteSubmits EXCEPT ![tasks[t].name] = @ + 1 ]
  /\ tasks' = [ tasks EXCEPT
                  ![t] = IF tasks[t].kind = "save"
                         THEN [ tasks[t] EXCEPT !.pc = "done" ]
                         ELSE [ tasks[t] EXCEPT
                                  !.pc = "mig_del",
                                  !.submitted = @ \cup { Head(tasks[t].keysLeft) } ] ]
  /\ UNCHANGED << dataRev, session, store, reported, authChanges,
                  remoteRows, lastFetch, opened, currentUserId, registered,
                  history >>
  /\ UNCHANGED << ingestVars, uploadVars, mapperVars >>

\* The remote submission rejects: the catch block of the caller.
SubmitFails(t) ==
  /\ tasks[t].pc = "submit"
  /\ IF tasks[t].kind = "save"
     THEN /\ tasks' = [ tasks EXCEPT ![t].pc = "done" ]
          /\ UNCHANGED reported
     ELSE /\ tasks' = [ tasks EXCEPT ![t] = EntryFailed(tasks[t]) ]
          /\ reported' = ReportEntryFailed(tasks[t])
  /\ history' = [ history EXCEPT !.submitFailures = @ + 1 ]
  /\ UNCHANGED << dataRev, session, store, remoteSubmits, authChanges,
                  remoteRows, lastFetch, opened, currentUserId, registered >>
  /\ UNCHANGED << ingestVars, uploadVars, mapperVars >>

\* A del(rawKey) that removes nothing: copy-then-keep.
MigDelKeepsEntry(key) == store

\* What await del(rawKey) leaves of the store.
MigDelStore(key) == Del(key)

\* await del(rawKey); moved++
MigDel(t) ==
  /\ tasks[t].pc = "mig_del"
  /\ LET k == Head(tasks[t].keysLeft)
         tk == [ tasks[t] EXCEPT
                   !.deleted = @ \cup { k },
                   !.moved = @ + 1 ]
     IN /\ store' = MigDelStore(k)
        /\ tasks' = [ tasks EXCEPT ![t] = NextKey(tk) ]
        /\ reported' = ReportNextKey(tk)
  /\ UNCHANGED << dataRev, session, remoteSubmits, authChanges,
                  remoteRows, lastFetch, opened, currentUserId, registered,
                  history >>
  /\ UNCHANGED << ingestVars, uploadVars, mapperVars >>

SaveStep(t) ==
  \/ SaveGetUser(t)
  \/ SaveSet(t)
  \/ SubmitOk(t)
  \/ SubmitFails(t)

MigrateStep(t) ==
  \/ MigGetUser(t)
  \/ MigKeys(t)
  \/ MigGet(t)
  \/ MigDel(t)

\* ------------------------------------------------------------------------
\* ui-auth.js: the page handler, the session and the auth-state callback
\* ------------------------------------------------------------------------

\* ------------------------------------------------------------------------
\* idb-keyval rejects: keys(), get(), set() or del() fails (the database
\* cannot be opened, the quota is exceeded). Direct invocations only.
\* ------------------------------------------------------------------------

\* loadCachedCloudDatasets rejects. The call that seeds the rows (line 72) is
\* outside the try block and the one of the catch block (line 111) is inside
\* the catch: openAllDatasets rejects. The one of the empty result (line 101)
\* is inside the try block: the catch block takes it for a select error and
\* calls loadCachedCloudDatasets again.
LoadCachedRejected(tk, operation) ==
  LET g == [ tk EXCEPT !.storeError = operation, !.keysLeft = << >>,
                       !.results = {} ]
  IN IF tk.lcRet = "empty"
     THEN CallLoadCached([ g EXCEPT !.fetchError = TRUE ], "error")
     ELSE [ g EXCEPT !.pc = "threw" ]

\* loadCachedCloudDatasets: await keys() rejects
LcKeysFails(t) ==
  /\ tasks[t].pc = "lc_keys"
  /\ tasks[t].kind = "open"
  /\ tasks' = [ tasks EXCEPT ![t] = LoadCachedRejected(tasks[t], "keys") ]
  /\ UNCHANGED << dataRev, session, store, remoteSubmits, reported, authChanges,
                  remoteRows, lastFetch, opened, currentUserId, registered,
                  history >>
  /\ UNCHANGED << ingestVars, uploadVars, mapperVars >>

\* loadCachedCloudDatasets: await get(raw) rejects
LcGetFails(t) ==
  /\ tasks[t].pc = "lc_get"
  /\ tasks[t].kind = "open"
  /\ tasks' = [ tasks EXCEPT ![t] = LoadCachedRejected(tasks[t], "get") ]
  /\ UNCHANGED << dataRev, session, store, remoteSubmits, reported, authChanges,
                  remoteRows, lastFetch, opened, currentUserId, registered,
                  history >>
  /\ UNCHANGED << ingestVars, uploadVars, mapperVars >>

\* cacheCloudDatasets: await keys() rejects; the catch of openAllDatasets
\* warns, the rows are drawn and openAllDatasets returns
CcKeysFails(t) ==
  /\ tasks[t].pc = "cc_keys"
  /\ tasks[t].kind = "open"
  /\ tasks' = [ tasks EXCEPT ![t] =
                  AfterOpen([ tasks[t] EXCEPT !.storeError = "keys" ]) ]
  /\ opened' = OpenedAfter(tasks[t])
  /\ UNCHANGED << dataRev, session, store, remoteSubmits, reported, authChanges,
                  remoteRows, lastFetch, currentUserId, registered, history >>
  /\ UNCHANGED << ingestVars, uploadVars, mapperVars >>

\* cacheCloudDatasets: the last set(...) of the writes rejects; the same catch
CcSetFails(t, k) ==
  /\ tasks[t].pc = "cc_sets"
  /\ tasks[t].kind = "open"
  /\ tasks[t].pending = { k }
  /\ tasks' = [ tasks EXCEPT ![t] =
                  AfterOpen([ tasks[t] EXCEPT !.storeError = "set",
                                              !.pending = {} ]) ]
  /\ opened' = OpenedAfter(tasks[t])
  /\ UNCHANGED << dataRev, session, store, remoteSubmits, reported, authChanges,
                  remoteRows, lastFetch, currentUserId, registered, history >>
  /\ UNCHANGED << ingestVars, uploadVars, mapperVars >>

\* migrateLocalToCloud: await keys() rejects, outside the try block
MigKeysFails(t) ==
  /\ tasks[t].pc = "mig_keys"
  /\ tasks[t].kind = "migrate"
  /\ tasks' = [ tasks EXCEPT ![t] =
                  AfterMigrate([ tasks[t] EXCEPT !.storeError = "keys" ], TRUE) ]
  /\ UNCHANGED << dataRev, session, store, remoteSubmits, reported, authChanges,
                  remoteRows, lastFetch, opened, currentUserId, registered,
                  history >>
  /\ UNCHANGED << ingestVars, uploadVars, mapperVars >>

\* migrateLocalToCloud: await get(rawKey) rejects, outside the try block
MigGetFails(t) ==
  /\ tasks[t].pc = "mig_get"
  /\ tasks[t].kind = "migrate"
  /\ dataRev = "scoped"
  /\ tasks' = [ tasks EXCEPT ![t] =
                  AfterMigrate([ tasks[t] EXCEPT !.storeError = "get" ], TRUE) ]
  /\ UNCHANGED << dataRev, session, store, remoteSubmits, reported, authChanges,
                  remoteRows, lastFetch, opened, currentUserId, registered,
                  history >>
  /\ UNCHANGED << ingestVars, uploadVars, mapperVars >>

\* migrateLocalToCloud: await del(rawKey) rejects, inside the try block: the
\* catch logs and the loop goes on
MigDelFails(t) ==
  /\ tasks[t].pc = "mig_del"
  /\ tasks[t].kind = "migrate"
  /\ dataRev = "scoped"
  /\ tasks' = [ tasks EXCEPT ![t] =
                  EntryFailed([ tasks[t] EXCEPT !.storeError = "del" ]) ]
  /\ reported' = ReportEntryFailed(tasks[t])
  /\ UNCHANGED << dataRev, session, store, remoteSubmits, authChanges,
                  remoteRows, lastFetch, opened, currentUserId, registered,
                  history >>
  /\ UNCHANGED << ingestVars, uploadVars, mapperVars >>

\* saveDataset without a session: set(localKey(name), geojson) rejects; the
\* catch of the mnet:dataset listener logs and alerts
SaveSetFails(t) ==
  /\ tasks[t].pc = "save_set"
  /\ tasks[t].kind = "save"
  /\ tasks' = [ tasks EXCEPT ![t].pc = "done", ![t].storeError = "set" ]
  /\ UNCHANGED << dataRev, session, store, remoteSubmits, reported, authChanges,
                  remoteRows, lastFetch, opened, currentUserId, registered,
                  history >>
  /\ UNCHANGED << ingestVars, uploadVars, mapperVars >>

StoreFails(t) ==
  \/ LcKeysFails(t)
  \/ LcGetFails(t)
  \/ CcKeysFails(t)
  \/ \E k \in AllKeys : CcSetFails(t, k)
  \/ MigKeysFails(t)
  \/ MigGetFails(t)
  \/ MigDelFails(t)
  \/ SaveSetFails(t)

\* The callback up to its first await: previousUserId = currentUserId,
\* updateUserUI(user), then migrateLocalToCloud() for a user, and for none
\* clearCloudCache(previousUserId) if there was a user.
CallbackTask(user, previousUserId) ==
  [ IdleTask EXCEPT
      !.kind = "callback",
      !.prevUser = previousUserId,
      !.pc = IF user # NoUser THEN "mig_getUser"
             ELSE IF previousUserId # NoUser THEN "clr_keys" ELSE "done" ]

\* The auth client calls the registered callback with the user of the session.
Deliver(user, tks) ==
  /\ HasFree(tks)
  /\ tasks' = [ tks EXCEPT ![FreeSlot(tks)] = CallbackTask(user, currentUserId) ]
  /\ currentUserId' = user
  /\ opened' = IF user = NoUser THEN {} ELSE opened

\* const initialUser = await getUser(); updateUserUI(initialUser); with a
\* user, migrateLocalToCloud() is called.
BootGetUser(t) ==
  /\ tasks[t].pc = "boot_getUser"
  /\ currentUserId' = session
  /\ tasks' = [ tasks EXCEPT ![t].pc =
                  IF session # NoUser THEN "mig_getUser" ELSE "boot_register" ]
  /\ UNCHANGED << dataRev, session, store, remoteSubmits, reported, authChanges,
                  remoteRows, lastFetch, opened, registered, history >>
  /\ UNCHANGED << ingestVars, uploadVars, mapperVars >>

\* onAuthStateChanged(async (user) => ...): the callback is registered, and
\* the auth client calls it with the session there is.
BootRegister(t) ==
  /\ tasks[t].pc = "boot_register"
  /\ registered' = TRUE
  /\ Deliver(session, [ tasks EXCEPT ![t].pc = "done" ])
  /\ UNCHANGED << dataRev, session, store, remoteSubmits, reported, authChanges,
                  remoteRows, lastFetch, history >>
  /\ UNCHANGED << ingestVars, uploadVars, mapperVars >>

\* The session ends: the user signs out, or the session is lost.
SignOut ==
  /\ session # NoUser
  /\ authChanges < MaxAuthChanges
  /\ session' = NoUser
  /\ authChanges' = authChanges + 1
  /\ IF registered THEN Deliver(NoUser, tasks)
     ELSE UNCHANGED << tasks, currentUserId, opened >>
  /\ history' = [ history EXCEPT !.busyLogout =
                    @ \/ \E t \in TaskIds : tasks[t].pc \notin { "idle", "done" } ]
  /\ UNCHANGED << dataRev, store, remoteSubmits, reported, remoteRows,
                  lastFetch, registered >>
  /\ UNCHANGED << ingestVars, uploadVars, mapperVars >>

\* signInWithPassword succeeds.
SignIn(u) ==
  /\ session = NoUser
  /\ authChanges < MaxAuthChanges
  /\ session' = u
  /\ authChanges' = authChanges + 1
  /\ history' = [ history EXCEPT !.signIns = @ + 1 ]
  /\ IF registered THEN Deliver(u, tasks)
     ELSE UNCHANGED << tasks, currentUserId, opened >>
  /\ UNCHANGED << dataRev, store, remoteSubmits, reported, remoteRows,
                  lastFetch, registered >>
  /\ UNCHANGED << ingestVars, uploadVars, mapperVars >>

\* ------------------------------------------------------------------------
\* Specifications
\* ------------------------------------------------------------------------

\* ------------------------------------------------------------------------
\* layer-upload.js: fingerprints and matching
\* ------------------------------------------------------------------------

\* Strings are sequences of characters, so that trimming, lower-casing and
\* the stripping of non-alphanumerics are computed as the code computes them.
\* the letters that occur, with their lower-case forms
UpperToLower ==
  [ A |-> "a", B |-> "b", C |-> "c", E |-> "e", F |-> "f", H |-> "h", I |-> "i",
    M |-> "m", N |-> "n", O |-> "o", R |-> "r", S |-> "s", T |-> "t",
    X |-> "x" ]

UpperCaseLetters == DOMAIN UpperToLower

LowerCaseLetters == { UpperToLower[c] : c \in UpperCaseLetters }

DecimalDigits == << "0", "1", "2", "3", "4", "5", "6", "7", "8", "9" >>

Alphanumerics ==
  UpperCaseLetters \cup LowerCaseLetters
    \cup { DecimalDigits[i] : i \in 1 .. Len(DecimalDigits) }

\* [a-z0-9], case ignored
IsAlphanumeric(c) == c \in Alphanumerics

toLowerCaseChar(c) == IF c \in UpperCaseLetters THEN UpperToLower[c] ELSE c

toLowerCase(str) == [ i \in 1 .. Len(str) |-> toLowerCaseChar(str[i]) ]

RECURSIVE trimStart(_)
trimStart(str) ==
  IF str # <<>> /\ Head(str) = " " THEN trimStart(Tail(str)) ELSE str

RECURSIVE trimEnd(_)
trimEnd(str) ==
  IF str # <<>> /\ str[Len(str)] = " "
  THEN trimEnd(SubSeq(str, 1, Len(str) - 1))
  ELSE str

trim(str) == trimEnd(trimStart(str))

\* value.replace(/[^a-z0-9]/gi, "").toLowerCase()
normaliseName(value) == toLowerCase(SelectSeq(value, IsAlphanumeric))

\* a property value that is null or undefined
NullValue == << "null" >>

\* String(value).trim(), lower-cased; "" for null, undefined and blank
normalisePropValue(value) ==
  IF value = NullValue THEN <<>> ELSE toLowerCase(trim(value))

MATCH_PROPERTY_GROUPS ==
  << << "grower", "Grower", "grower_name", "Grower Name", "growerName",
        "GrowerName" >>,
     << "farm", "Farm", "farm_name", "Farm Name", "farmName", "FarmName",
        "property", "Property" >>,
     << "field", "Field", "field_name", "Field Name", "fieldName",
        "FieldName", "block", "Block", "paddock", "Paddock" >> >>

FALLBACK_PROPERTIES ==
  << "name", "Name", "title", "Title", "id", "ID", "identifier",
     "Identifier" >>

MIN_SIGNATURE_PARTS == 2

MIN_MATCH_OVERLAP == 3

\* props is a sequence of << key, value >> pairs, the own properties
hasOwnProperty(props, key) == \E i \in 1 .. Len(props) : props[i][1] = key

PropertyOf(props, key) ==
  props[CHOOSE i \in 1 .. Len(props) :
          /\ props[i][1] = key
          /\ \A j \in (i + 1) .. Len(props) : props[j][1] # key][2]

RECURSIVE extractFirstMatch(_, _)
extractFirstMatch(props, candidates) ==
  IF candidates = <<>> THEN <<>>
  ELSE IF hasOwnProperty(props, Head(candidates))
       THEN LET normalised == normalisePropValue(PropertyOf(props, Head(candidates)))
            IN  IF normalised # <<>> THEN normalised
                ELSE extractFirstMatch(props, Tail(candidates))
       ELSE extractFirstMatch(props, Tail(candidates))

\* null, the key of a feature that resolves too little
NoKey == <<>>

\* parts.push(`${index}:${value}`) for each group that resolves, in order
KeyParts(props) ==
  LET Part(index) ==
        << DecimalDigits[index],
           extractFirstMatch(props, MATCH_PROPERTY_GROUPS[index]) >>
      keep(part) == part[2] # <<>>
  IN  SelectSeq([ index \in 1 .. Len(MATCH_PROPERTY_GROUPS) |-> Part(index) ],
                keep)

\* a variant of buildFeatureKey that leaves the one resolved group out of the
\* fallback key
buildFeatureKeyFallbackOnly(feature) ==
  LET props    == feature.properties
      parts    == KeyParts(props)
      fallback == extractFirstMatch(props, FALLBACK_PROPERTIES)
  IN  IF Len(parts) >= MIN_SIGNATURE_PARTS THEN parts
      ELSE IF fallback # <<>> THEN << << "fb", fallback >> >>
      ELSE NoKey

\* the feature key: the parts joined, with a "fb" part when fewer than
\* MIN_SIGNATURE_PARTS groups resolve
buildFeatureKey(feature) ==
  LET props    == feature.properties
      parts    == KeyParts(props)
      fallback == extractFirstMatch(props, FALLBACK_PROPERTIES)
  IN  IF Len(parts) >= MIN_SIGNATURE_PARTS THEN parts
      ELSE IF fallback # <<>> THEN parts \o << << "fb", fallback >> >>
      ELSE NoKey

IsFeatureCollectionValue(value) == value.type = "FeatureCollection"

\* the keys of all features, null included
buildSignatureWithNull(featureCollection) ==
  IF ~ IsFeatureCollectionValue(featureCollection) THEN {}
  ELSE { buildFeatureKey(featureCollection.features[i]) :
           i \in 1 .. Len(featureCollection.features) }

buildSignature(featureCollection) ==
  IF ~ IsFeatureCollectionValue(featureCollection) THEN {}
  ELSE { buildFeatureKey(featureCollection.features[i]) :
           i \in 1 .. Len(featureCollection.features) } \ { NoKey }

\* --- Numbers: precision, recall and score are IEEE 754 doubles -----------
\* A positive double is [e, m]: m is its 53-bit significand as a leading 1
\* and four limbs of 13 bits, e its binary exponent.

LIMB == 8192

RECURSIVE ScaleUp(_, _, _)
ScaleUp(n, d, e) == IF n >= d THEN << n, d, e >> ELSE ScaleUp(2 * n, d, e - 1)

RECURSIVE ScaleDown(_, _, _)
ScaleDown(n, d, e) == IF n < 2 * d THEN << n, d, e >> ELSE ScaleDown(n, 2 * d, e + 1)

RECURSIVE Pow2(_)
Pow2(k) == IF k = 0 THEN 1 ELSE 2 * Pow2(k - 1)

RECURSIVE LongDivision(_, _, _)
\* k further limbs of the quotient of r / d, then the last remainder
LongDivision(r, d, k) ==
  IF k = 0 THEN << r >>
  ELSE << (r * LIMB) \div d >> \o LongDivision((r * LIMB) % d, d, k - 1)

RECURSIVE Increment(_)
\* adds one to the last limb, the carry running to the front; the leading
\* limb is left to grow
Increment(m) ==
  LET n == Len(m)
  IN  IF n = 1 THEN << m[1] + 1 >>
      ELSE IF m[n] + 1 < LIMB THEN SubSeq(m, 1, n - 1) \o << m[n] + 1 >>
      ELSE Increment(SubSeq(m, 1, n - 1)) \o << 0 >>

\* round to nearest, ties to even: up says the discarded part is above
\* one half, tie that it is exactly one half
RoundLimbs(m, e, up, tie) ==
  IF up \/ (tie /\ m[Len(m)] % 2 = 1)
  THEN LET inc == Increment(m)
       IN  IF inc[1] = 2
           THEN [e |-> e + 1, m |-> << 1, 0, 0, 0, 0 >>]
           ELSE [e |-> e, m |-> inc]
  ELSE [e |-> e, m |-> m]

\* the double nearest to n / d, for 0 < n and 0 < d
Divide(n, d) ==
  LET up == ScaleUp(n, d, 0)
      s  == ScaleDown(up[1], up[2], up[3])
      q  == LongDivision(s[1] - s[2], s[2], 4)
  IN  RoundLimbs(<< 1, q[1], q[2], q[3], q[4] >>, s[3],
                 2 * q[5] > s[2], 2 * q[5] = s[2])

\* m / 2^k for k below the width of a limb, in one limb more than m has
ShiftRight(m, k) ==
  LET p == Pow2(k)
      x == m \o << 0 >>
  IN  [i \in 1 .. Len(x) |->
         (x[i] \div p) + (IF i = 1 THEN 0 ELSE (x[i - 1] % p) * (LIMB \div p))]

RECURSIVE AddLimbs(_, _, _)
AddLimbs(x, y, carry) ==
  LET n == Len(x)
      s == x[n] + y[n] + carry
  IN  IF n = 1 THEN << s >>
      ELSE AddLimbs(SubSeq(x, 1, n - 1), SubSeq(y, 1, n - 1), s \div LIMB)
             \o << s % LIMB >>

\* the double nearest to x + y, for positive doubles whose exponents differ
\* by less than the width of a limb
Add(x, y) ==
  LET hi    == IF x.e >= y.e THEN x ELSE y
      lo    == IF x.e >= y.e THEN y ELSE x
      sum   == AddLimbs(hi.m \o << 0 >>, ShiftRight(lo.m, hi.e - lo.e), 0)
      carry == sum[1] >= 2
      norm  == IF carry THEN ShiftRight(SubSeq(sum, 1, 5), 1) ELSE sum
      extra == IF carry THEN norm[6] ELSE sum[6]
      \* when the sum carried, sum[6] lies below the bit shifted out
      below == carry /\ sum[6] # 0
      half  == LIMB \div 2
  IN  RoundLimbs(SubSeq(norm, 1, 5), IF carry THEN hi.e + 1 ELSE hi.e,
                 extra > half \/ (extra = half /\ below),
                 extra = half /\ ~ below)

Halve(x) == [e |-> x.e - 1, m |-> x.m]

LimbsLess(x, y) ==
  \E i \in 1 .. Len(x) :
     /\ x[i] < y[i]
     /\ \A j \in 1 .. (i - 1) : x[j] = y[j]

Less(x, y) == x.e < y.e \/ (x.e = y.e /\ LimbsLess(x.m, y.m))

\* 0, what bestScore starts from
ZeroScore == [e |-> -1075, m |-> << 0, 0, 0, 0, 0 >>]

\* 0.58
MIN_MATCH_SCORE == Divide(58, 100)

\* overlap / size, worked out once for every overlap and size that occur
Quotients ==
  [ n \in 1 .. MaxFields |->
      [ d \in 1 .. MaxFields |-> Divide(n, d) ] \o << >> ] \o << >>

\* (precision + recall) / 2, worked out once for every overlap and pair of
\* sizes that occur
MeanScores ==
  [ o \in 1 .. MaxFields |->
      [ a \in 1 .. MaxFields |->
          [ b \in 1 .. MaxFields |->
              Halve(Add(Quotients[o][a], Quotients[o][b])) ] \o << >> ]
        \o << >> ] \o << >>

\* precision = overlap / signature.size
PrecisionOf(overlap, size) == Quotients[overlap][size]

\* recall = overlap / datasetSignature.size
RecallOf(overlap, datasetSize) == Quotients[overlap][datasetSize]

\* precision only, in place of the mean of precision and recall
ScoreByPrecision(overlap, size, datasetSize) == Quotients[overlap][size]

\* score = (precision + recall) / 2
ScoreOf(overlap, size, datasetSize) == MeanScores[overlap][size][datasetSize]

\* --- Fingerprints ---------------------------------------------------------

FeatureCollection(features) == [type |-> "FeatureCollection", features |-> features]

\* a geojson column that holds no feature collection (null, or text that
\* does not parse to one)
NoGeojson == [type |-> "none", features |-> <<>>]

parseFeatureCollection(value) ==
  IF IsFeatureCollectionValue(value) THEN value ELSE NoGeojson

\* row.name || row.source_filename || ""
FingerprintName(row) ==
  IF row.name # <<>> THEN row.name ELSE row.source_filename

\* one element of datasetFingerprintCache
FingerprintOf(row) ==
  [ id           |-> row.id,
    name         |-> FingerprintName(row),
    signature    |-> buildSignature(parseFeatureCollection(row.geojson)),
    featureCount |-> Len(parseFeatureCollection(row.geojson).features) ]

Fingerprints(rows) == [ i \in 1 .. Len(rows) |-> FingerprintOf(rows[i]) ]

countIntersection(aSet, bSet) == Cardinality(aSet \cap bSet)

\* null, and the shape of what findMatchingDataset returns
NoMatch ==
  [ found |-> FALSE, id |-> "", name |-> <<>>, matchReason |-> "",
    overlap |-> 0, precision |-> ZeroScore, recall |-> ZeroScore,
    score |-> ZeroScore ]

\* { ...byName, matchReason: "name" }
NameMatch(dataset) ==
  [ found |-> TRUE, id |-> dataset.id, name |-> dataset.name,
    matchReason |-> "name", overlap |-> 0, precision |-> ZeroScore,
    recall |-> ZeroScore, score |-> ZeroScore ]

\* { ...dataset, matchReason: "attributes", precision, recall, overlap, score }
AttributeMatch(dataset, overlap, precision, recall, score) ==
  [ found |-> TRUE, id |-> dataset.id, name |-> dataset.name,
    matchReason |-> "attributes", overlap |-> overlap,
    precision |-> precision, recall |-> recall, score |-> score ]

\* score >= MIN_MATCH_SCORE
ReachesMinScore(score) == ~ Less(score, MIN_MATCH_SCORE)

\* overlap >= MIN_MATCH_OVERLAP alone
ClearsOverlapOnly(overlap, score) == overlap >= MIN_MATCH_OVERLAP

\* overlap >= MIN_MATCH_OVERLAP || score >= MIN_MATCH_SCORE
ClearsThreshold(overlap, score) ==
  overlap >= MIN_MATCH_OVERLAP \/ ReachesMinScore(score)

\* score >= bestScore, in place of score > bestScore
ImprovesOrTies(score, bestScore) == ~ Less(score, bestScore)

\* score > bestScore
Improves(score, bestScore) == Less(bestScore, score)

RECURSIVE BestMatch(_, _, _, _)
\* the loop over the datasets from index i on, with the best so far
BestMatch(datasets, signature, i, best) ==
  IF i > Len(datasets) THEN best
  ELSE
    LET dataset == datasets[i]
        overlap == countIntersection(signature, dataset.signature)
        score   == ScoreOf(overlap, Cardinality(signature),
                           Cardinality(dataset.signature))
    IN  IF dataset.signature = {} \/ overlap = 0
        THEN BestMatch(datasets, signature, i + 1, best)
        ELSE IF Improves(score, best.score) /\ ClearsThreshold(overlap, score)
        THEN BestMatch(datasets, signature, i + 1,
                       AttributeMatch(dataset, overlap,
                                      PrecisionOf(overlap,
                                                  Cardinality(signature)),
                                      RecallOf(overlap,
                                               Cardinality(dataset.signature)),
                                      score))
        ELSE BestMatch(datasets, signature, i + 1, best)

\* no dataset is looked up by name
HasNoneByName(datasets, fallbackNormalised) == FALSE

\* datasets.find((d) => normaliseName(d.name) === fallbackNormalised)
HasByName(datasets, fallbackNormalised) ==
  \E i \in 1 .. Len(datasets) : normaliseName(datasets[i].name) = fallbackNormalised

ByName(datasets, fallbackNormalised) ==
  datasets[CHOOSE i \in 1 .. Len(datasets) :
             /\ normaliseName(datasets[i].name) = fallbackNormalised
             /\ \A j \in 1 .. (i - 1) :
                  normaliseName(datasets[j].name) # fallbackNormalised]

\* findMatchingDataset, given the list loadDatasetFingerprintCache returns
findMatchingDataset(featureCollection, fallbackName, datasets) ==
  LET signature          == buildSignature(featureCollection)
      fallbackNormalised == normaliseName(fallbackName)
  IN  IF signature = {} THEN NoMatch
      ELSE IF Len(datasets) = 0 THEN NoMatch
      ELSE IF fallbackNormalised # <<>> /\ HasByName(datasets, fallbackNormalised)
      THEN NameMatch(ByName(datasets, fallbackNormalised))
      ELSE BestMatch(datasets, signature, 1, NoMatch)

\* --- Uploads and stored rows the matching is run on -------------------------

Acme == << "A", "c", "m", "e" >>

North == << "N", "o", "r", "t", "h" >>

SmithFarm == << "S", "m", "i", "t", "h", " ", "F", "a", "r", "m" >>

RECURSIVE Decimal(_)
Decimal(n) ==
  IF n < 10 THEN << DecimalDigits[n + 1] >>
  ELSE Decimal(n \div 10) \o << DecimalDigits[(n % 10) + 1] >>

Feature(props) == [properties |-> props]

\* a feature of an upload: Grower=Acme, Farm=North, Field=A<i>
UploadedField(i) ==
  Feature(<< << "Grower", Acme >>, << "Farm", North >>,
             << "Field", << "A" >> \o Decimal(i) >> >>)

\* the same field as an earlier export wrote it: other property keys, other
\* case, stray blanks
StoredField(i) ==
  Feature(<< << "grower_name", << "a", "c", "m", "e", " " >> >>,
             << "Farm Name", << " ", "N", "O", "R", "T", "H" >> >>,
             << "paddock", << "a" >> \o Decimal(i) >> >>)

NoProperties == Feature(<<>>)

GrowerOnly == Feature(<< << "Grower", Acme >>, << "name", NullValue >> >>)

TitleOnly == Feature(<< << "title", << "x" >> >> >>)

GrowerAndId ==
  Feature(<< << "grower", Acme >>, << "name", << " " >> >>,
             << "id", << "1" >> >> >>)

UploadedFields(i, j) == [ k \in 1 .. (j - i + 1) |-> UploadedField(i + k - 1) ]

StoredFields(i, j) == [ k \in 1 .. (j - i + 1) |-> StoredField(i + k - 1) ]

\* Grower=Acme, Farm=North, Field=A1 for 5 features and Field=A2 for 5 more
AcmeUpload ==
  FeatureCollection([ k \in 1 .. 10 |-> UploadedField(IF k <= 5 THEN 1 ELSE 2) ])

\* a stored dataset that holds 8 of those 10 features
AcmeStored ==
  FeatureCollection([ k \in 1 .. 8 |-> StoredField(IF k <= 4 THEN 1 ELSE 2) ])

UploadCollections ==
  { FeatureCollection(UploadedFields(1, n)) : n \in 0 .. MaxFields }
    \cup { FeatureCollection(<< NoProperties, GrowerOnly >>),
           FeatureCollection(<< TitleOnly, GrowerAndId >>),
           AcmeUpload }

\* the file name without its extension
UploadStems ==
  { << "s", "m", "i", "t", "h", " ", "f", "a", "r", "m" >>,
    << "n", "o", "r", "t", "h" >>,
    << "-" >> }

Uploads == [ stem : UploadStems, fc : UploadCollections ]

OtherStoredCollections ==
  { NoGeojson, FeatureCollection(<< TitleOnly, GrowerAndId >>), AcmeStored }

\* d1 holds the fields from some field on, d2 any run of fields
StoredCollections(id) ==
  { FeatureCollection(StoredFields(run[1], run[2])) :
      run \in { r \in (1 .. MaxFields) \X (1 .. MaxFields) :
                  /\ r[1] <= r[2]
                  /\ id = "d1" => r[2] = MaxFields } }
    \cup OtherStoredCollections

\* the names of the rows: d1 is named, d2 has at most a source file name
RowNames(id) ==
  IF id = "d1" THEN { [name |-> SmithFarm, source_filename |-> << "x" >>] }
  ELSE { [name |-> <<>>, source_filename |-> North],
         [name |-> <<>>, source_filename |-> <<>>] }

DatasetRow(id, naming, geojson) ==
  [ id |-> id, name |-> naming.name,
    source_filename |-> naming.source_filename, geojson |-> geojson ]

DatasetRows(id) ==
  { DatasetRow(id, naming, geojson) :
      naming \in RowNames(id), geojson \in StoredCollections(id) }

\* the datasets table of the user, most recently updated first
DatasetTables ==
  { <<>> }
    \cup UNION { { << r >> : r \in DatasetRows(id) } : id \in DatasetIds }
    \cup UNION { { << r1, r2 >> : r1 \in DatasetRows(ids[1]),
                                  r2 \in DatasetRows(ids[2]) } :
                 ids \in { p \in DatasetIds \X DatasetIds : p[1] # p[2] } }

NoUpload == [stem |-> <<>>, fc |-> NoGeojson]

LoadedCache(rows) == [loaded |-> TRUE, list |-> Fingerprints(rows)]

\* datasetFingerprintCache = null
NoCache == [loaded |-> FALSE, list |-> <<>>]

\* the result record handleFile starts from
NewResult(stem) ==
  [ datasetName |-> stem, updatedExisting |-> FALSE, matchReason |-> "",
    datasetId |-> "", cloudStored |-> FALSE ]

\* if (matchedDataset?.name) { result.datasetName = ...; ... }
ResultAfterMatch(res, matchedDataset) ==
  IF matchedDataset.found /\ matchedDataset.name # <<>>
  THEN [ res EXCEPT !.datasetName     = matchedDataset.name,
                    !.updatedExisting = TRUE,
                    !.matchReason     = matchedDataset.matchReason,
                    !.datasetId       = matchedDataset.id ]
  ELSE res

\* ------------------------------------------------------------------------
\* layer-upload.js (the revision with the attribute mapper): pure helpers
\* ------------------------------------------------------------------------

\* collectPropertyStats(featureCollection, sampleLimit = 200)
SAMPLE_LIMIT == 200

\* props[key] = value
SetProperty(props, key, value) ==
  IF hasOwnProperty(props, key)
  THEN [ i \in 1 .. Len(props) |->
           IF props[i][1] = key THEN << key, value >> ELSE props[i] ]
  ELSE Append(props, << key, value >>)

\* delete props[key]
DeleteProperty(props, key) == SelectSeq(props, LAMBDA p : p[1] # key)

\* a mapping names, per canonical field, the property key it is read from
\* ("" for none)
Mapping(grower, farm, field, crop) ==
  [ grower |-> grower, farm |-> farm, field |-> field, crop |-> crop ]

\* assignValue: props[targetKey] = String(props[sourceKey]).trim(), and the
\* target is deleted when there is no source key, no value, or a blank one
assignValue(props, targetKey, sourceKey) ==
  IF sourceKey = "" THEN DeleteProperty(props, targetKey)
  ELSE IF ~ hasOwnProperty(props, sourceKey) THEN DeleteProperty(props, targetKey)
  ELSE IF PropertyOf(props, sourceKey) = NullValue
       THEN DeleteProperty(props, targetKey)
  ELSE LET str == trim(PropertyOf(props, sourceKey))
       IN  IF str = <<>> THEN DeleteProperty(props, targetKey)
           ELSE SetProperty(props, targetKey, str)

\* typeof props[key] === "string" && props[key]
IsNonEmptyString(props, key) ==
  /\ hasOwnProperty(props, key)
  /\ PropertyOf(props, key) # NullValue
  /\ PropertyOf(props, key) # <<>>

hasAll(props) ==
  /\ IsNonEmptyString(props, "grower_name")
  /\ IsNonEmptyString(props, "farm_name")
  /\ IsNonEmptyString(props, "field_name")

\* the body of the loop: the copy of the properties after the assignments,
\* made one after the other on that copy
MappedProperties(props, mapping) ==
  LET afterGrower == assignValue(props, "grower_name", mapping.grower)
      afterFarm   == assignValue(afterGrower, "farm_name", mapping.farm)
      afterField  == assignValue(afterFarm, "field_name", mapping.field)
  IN  IF mapping.crop # ""
      THEN assignValue(afterField, "crop_type", mapping.crop)
      ELSE afterField

MappedFeatures(features, mapping) ==
  [ i \in 1 .. Len(features) |->
      Feature(MappedProperties(features[i].properties, mapping)) ]

\* no filter: every feature is kept and none is counted as dropped
applyMappingKeepsAll(featureCollection, mapping) ==
  [ collection |->
      FeatureCollection(MappedFeatures(featureCollection.features, mapping)),
    dropped |-> 0 ]

applyMappingToFeatureCollection(featureCollection, mapping) ==
  IF ~ IsFeatureCollectionValue(featureCollection)
  THEN [ collection |-> featureCollection, dropped |-> 0 ]
  ELSE LET mapped == MappedFeatures(featureCollection.features, mapping)
       IN  [ collection |->
               FeatureCollection(SelectSeq(mapped, LAMBDA f : hasAll(f.properties))),
             dropped |->
               Cardinality({ i \in 1 .. Len(mapped) : ~ hasAll(mapped[i].properties) }) ]

\* --- the collections and mappings applyMappingToFeatureCollection is given

\* a property the feature does not have
Absent == << "absent" >>

OptionalProperty(key, value) ==
  IF value = Absent THEN <<>> ELSE << << key, value >> >>

MappableFeature(owner, growerName, farm) ==
  Feature(OptionalProperty("owner", owner)
            \o OptionalProperty("grower_name", growerName)
            \o OptionalProperty("Farm", farm)
            \o << << "Field", << "f" >> >> >>)

MappableFeatures ==
  { MappableFeature(owner, growerName, farm) :
      owner \in { Absent, NullValue, << " " >>, << " ", "a", " " >> },
      growerName \in { Absent, <<>>, << "x" >> },
      farm \in { Absent, << "n" >> } }

\* what the dialog can give for such a file: the farm read from the Farm
\* column or from the column named grower_name, the crop left out or read
Mappings ==
  { Mapping("owner", farm, "Field", crop) :
      farm \in { "Farm", "grower_name" }, crop \in { "", "Field" } }

\* String(value).trim() of the property a mapping names, in the feature as
\* uploaded; "" when there is none
MappedValue(feature, sourceKey) ==
  IF sourceKey = "" \/ ~ hasOwnProperty(feature.properties, sourceKey) THEN <<>>
  ELSE IF PropertyOf(feature.properties, sourceKey) = NullValue THEN <<>>
  ELSE trim(PropertyOf(feature.properties, sourceKey))

\* the feature has all three required properties present and non-empty
\* under the mapping
IsComplete(feature, mapping) ==
  /\ MappedValue(feature, mapping.grower) # <<>>
  /\ MappedValue(feature, mapping.farm) # <<>>
  /\ MappedValue(feature, mapping.field) # <<>>

\* collections of at most MaxMapped features
ShortCollections ==
  { NoGeojson }
    \cup { FeatureCollection(features) :
             features \in UNION { [ 1 .. n -> MappableFeatures ] : n \in 0 .. MaxMapped } }

\* 10 features, 7 of them alike and complete under the mapping, 3 alike and
\* not complete
TenFeatureCollections(mapping) ==
  { FeatureCollection([ i \in 1 .. 10 |-> IF i \in complete THEN good ELSE bad ]) :
      complete \in { S \in SUBSET (1 .. 10) : Cardinality(S) = 7 },
      good \in { f \in MappableFeatures : IsComplete(f, mapping) },
      bad \in { f \in MappableFeatures : ~ IsComplete(f, mapping) } }

NoOutput == [ collection |-> NoGeojson, dropped |-> -1 ]

\* --- attribute mapping: stored and session mappings, property statistics

\* null, where a mapping is expected
NoMapping == Mapping("", "", "", "")

\* localStorage without an entry under ATTRIBUTE_STORAGE_KEY
NoRecord == [ exists |-> FALSE, remember |-> FALSE, mapping |-> NoMapping ]

\* JSON.stringify({ remember, mapping }) under ATTRIBUTE_STORAGE_KEY
Record(remember, mapping) ==
  [ exists |-> TRUE, remember |-> remember, mapping |-> mapping ]

\* loadStoredAttributeMapping: the parsed entry if it has a mapping, or null
loadStoredAttributeMapping(storage) ==
  IF storage.exists /\ storage.mapping # NoMapping THEN storage ELSE NoRecord

\* a variant of storeAttributeMapping that leaves the old record when remember
\* is not checked
storeAttributeMappingKeepsOld(storage, mapping, remember) ==
  IF mapping # NoMapping /\ remember THEN Record(TRUE, mapping) ELSE storage

\* storeAttributeMapping: setItem with remember, removeItem without
storeAttributeMapping(storage, mapping, remember) ==
  IF mapping # NoMapping /\ remember THEN Record(TRUE, mapping) ELSE NoRecord

\* the keys that have a value other than null in one of the first
\* sampleLimit features
collectPropertyStats(featureCollection, sampleLimit) ==
  IF ~ IsFeatureCollectionValue(featureCollection) THEN [ keys |-> {} ]
  ELSE LET features == featureCollection.features
           sampled == 1 .. (IF Len(features) < sampleLimit THEN Len(features)
                            ELSE sampleLimit)
       IN  [ keys |->
               UNION { { features[i].properties[j][1] :
                           j \in { k \in 1 .. Len(features[i].properties) :
                                     features[i].properties[k][2] # NullValue } } :
                       i \in sampled } ]

RequiredFields == { "grower", "farm", "field" }

\* a variant of mappingIsValid that looks at the grower only
mappingIsValidGrowerOnly(mapping, stats) ==
  /\ mapping # NoMapping
  /\ mapping.grower # "" /\ mapping.grower \in stats.keys

\* every required field names a key of the statistics
mappingIsValid(mapping, stats) ==
  /\ mapping # NoMapping
  /\ \A field \in RequiredFields :
        mapping[field] # "" /\ mapping[field] \in stats.keys

\* a variant of MappingWithoutDialog that reuses the stored mapping without
\* looking at the file
MappingWithoutDialogUnchecked(stored, sessionMapping, stats) ==
  IF stored.remember THEN stored.mapping
  ELSE IF mappingIsValid(sessionMapping, stats) THEN sessionMapping
  ELSE NoMapping

\* requestAttributeMapping before the dialog: the mapping it returns at once,
\* or NoMapping when the dialog is to be shown
MappingWithoutDialog(stored, sessionMapping, stats) ==
  IF stored.remember /\ mappingIsValid(stored.mapping, stats) THEN stored.mapping
  ELSE IF mappingIsValid(sessionMapping, stats) THEN sessionMapping
  ELSE NoMapping

\* defaultMapping of requestAttributeMapping
DefaultMapping(stored, sessionMapping, stats) ==
  IF mappingIsValid(sessionMapping, stats) THEN sessionMapping
  ELSE IF stored.exists /\ mappingIsValid(stored.mapping, stats)
       THEN stored.mapping
  ELSE NoMapping

\* updateMapperApplyState: the apply button is enabled
RequiredSelected(mapping) ==
  mapping.grower # "" /\ mapping.farm # "" /\ mapping.field # ""

\* inferDatasetName on a non-empty collection: the first candidate of the
\* first feature that is a non-blank string, trimmed, or the fallback
NameCandidates == << "grower_name", "Grower", "grower", "client", "farm_name", "Farm" >>

RECURSIVE FirstCandidate(_, _, _)
FirstCandidate(props, candidates, defaultName) ==
  IF candidates = <<>> THEN defaultName
  ELSE IF /\ hasOwnProperty(props, Head(candidates))
          /\ PropertyOf(props, Head(candidates)) # NullValue
          /\ trim(PropertyOf(props, Head(candidates))) # <<>>
       THEN trim(PropertyOf(props, Head(candidates)))
       ELSE FirstCandidate(props, Tail(candidates), defaultName)

DefaultDatasetName == << "d", "a", "t", "a", "s", "e", "t" >>

inferDatasetName(fc, fallback) ==
  LET defaultName == IF trim(fallback) # <<>> THEN fallback ELSE DefaultDatasetName
  IN  IF ~ IsFeatureCollectionValue(fc) \/ fc.features = <<>> THEN defaultName
      ELSE FirstCandidate(fc.features[1].properties, NameCandidates, defaultName)

\* --- the files of a batch

\* a row of a shapefile with its owner, farm and field or block
Row(owner, farm, fieldKey, field) ==
  Feature(<< << "owner", owner >>, << "Farm", farm >>, << fieldKey, field >> >>)

\* a file: whether its extension is accepted, whether it parses, its stem and
\* what it parses to
File(supported, parses, stem, fc) ==
  [ accepted |-> supported, parses |-> parses, stem |-> stem, fc |-> fc ]

UnsupportedFile == File(FALSE, FALSE, << "u" >>, NoGeojson)
UnparsableFile == File(TRUE, FALSE, << "p" >>, NoGeojson)
EmptyFile == File(TRUE, TRUE, << "e" >>, FeatureCollection(<<>>))
\* features that carry no properties
BareFile == File(TRUE, TRUE, << "n" >>, FeatureCollection(<< Feature(<<>>) >>))
\* fields: one row complete, one with a blank farm
FieldsFile ==
  File(TRUE, TRUE, << "f" >>,
       FeatureCollection(<< Row(<< " ", "a" >>, << "n" >>, "Field", << "1" >>),
                            Row(<< "a" >>, << " " >>, "Field", << "2" >>) >>))
\* blocks instead of fields
BlocksFile ==
  File(TRUE, TRUE, << "k" >>,
       FeatureCollection(<< Row(<< "b" >>, << "n" >>, "Block", << "1" >>) >>))
\* every row has a blank owner
BlankFile ==
  File(TRUE, TRUE, << "x" >>,
       FeatureCollection(<< Row(<< " " >>, << "n" >>, "Field", << "1" >>) >>))
\* more rows than are sampled: the block column starts after the sample
LongFile ==
  File(TRUE, TRUE, << "l" >>,
       FeatureCollection([ i \in 1 .. (SAMPLE_LIMIT + 1) |->
                             IF i <= SAMPLE_LIMIT
                             THEN Row(<< "a" >>, << "n" >>, "Field", << "1" >>)
                             ELSE Feature(<< << "owner", << "a" >> >>,
                                             << "Farm", << "n" >> >>,
                                             << "Field", << "1" >> >>,
                                             << "Block", << "9" >> >> >>) ]))

Files ==
  { UnsupportedFile, UnparsableFile, EmptyFile, BareFile, FieldsFile,
    BlocksFile, BlankFile, LongFile }

\* file.name without its extension
FileNames == { file.stem[1] : file \in Files }

FileTable ==
  [ name \in FileNames |-> CHOOSE file \in Files : file.stem[1] = name ] @@ <<>>

\* collectPropertyStats(normalised) of each file, computed once
StatsTable ==
  [ name \in FileNames |->
      collectPropertyStats(FileTable[name].fc, SAMPLE_LIMIT) ] @@ <<>>

\* the batches: files by name, in the order they were picked
Batches == UNION { [ 1 .. n -> FileNames ] : n \in 1 .. MaxBatch }

FieldsMapping == Mapping("owner", "Farm", "Field", "")
BlocksMapping == Mapping("owner", "Farm", "Block", "")

\* what localStorage holds when the page loads: nothing, or a record written
\* by storeAttributeMapping (always with remember: true)
StoredRecords ==
  { NoRecord, Record(TRUE, FieldsMapping), Record(TRUE, BlocksMapping) }

\* the mappings of the model
KnownMappings == { FieldsMapping, BlocksMapping }

\* applyMappingToFeatureCollection(normalised, mapping) of each file and
\* mapping, computed once
MappedTable ==
  [ name \in FileNames |->
      [ mapping \in KnownMappings |->
          applyMappingToFeatureCollection(FileTable[name].fc, mapping) ] @@ <<>> ]
    @@ <<>>

\* what the user may select in the dialog: the owner and the farm, and a
\* field or block column
DialogMappings(options) ==
  { m \in KnownMappings :
      m.grower \in options /\ m.farm \in options /\ m.field \in options }

\* the result record handleFile starts from
NewFileResult(stem) ==
  [ success |-> FALSE, cloudStored |-> FALSE, features |-> 0,
    datasetName |-> stem, updatedExisting |-> FALSE, cancelled |-> FALSE ]

\* res = { success: false, cloudStored: false } of the catch in processFiles
ThrownResult == NewFileResult(<<>>)

NoDialog == [ open |-> FALSE, keys |-> {}, mapping |-> NoMapping, remember |-> FALSE ]

\* what requestAttributeMapping was called with and returned, for the file
\* being handled: asked is "none" before the call, then "reused", "alerted",
\* "dialog" while the dialog is open, "cancelled" or "confirmed"
NoRequest ==
  [ asked |-> "none", stored |-> NoRecord, session |-> NoMapping,
    returned |-> NoMapping ]

NoFileState ==
  [ result |-> NewFileResult(<<>>), normalised |-> NoGeojson,
    currentUser |-> NoUser, request |-> NoRequest ]

NoBatch ==
  [ index |-> 0, processed |-> 0, stored |-> 0, successful |-> 0,
    updatedNames |-> {}, createdNames |-> {} ]

\* ------------------------------------------------------------------------
\* layer-upload.js: normalizeFeatureCollection
\* ------------------------------------------------------------------------

\* A geometry: type "null" stands for null or a missing geometry; isArray
\* says whether geometries is an array.
Geometry(type, coordinates, isArray, geometries) ==
  [ type |-> type, coordinates |-> coordinates, isArray |-> isArray,
    geometries |-> geometries ]

NullGeometry == Geometry("null", 0, FALSE, <<>>)
Point(coordinates) == Geometry("Point", coordinates, FALSE, <<>>)
GeometryCollection(geometries) == Geometry("GeometryCollection", 0, TRUE, geometries)
\* a GeometryCollection without a geometries array
CollectionWithoutArray == Geometry("GeometryCollection", 0, FALSE, <<>>)

\* A feature: present is false for a null entry of features, hasProperties
\* is false for properties: null.
GeoFeature(present, hasProperties, properties, geometry) ==
  [ present |-> present, hasProperties |-> hasProperties,
    properties |-> properties, geometry |-> geometry ]

NullFeature == GeoFeature(FALSE, FALSE, <<>>, NullGeometry)

\* { type: "Feature", properties: { ...(f.properties || {}) }, geometry: g }
FlattenedChild(f, g) ==
  GeoFeature(TRUE, TRUE, IF f.hasProperties THEN f.properties ELSE <<>>, g)

\* a variant of NormalizedFeature that gives the children in reverse order
\* and without the properties of the parent
NormalizedFeatureReversed(f) ==
  IF ~ f.present \/ f.geometry.type = "null" THEN <<>>
  ELSE IF f.geometry.type = "GeometryCollection" /\ f.geometry.isArray
       THEN LET n == Len(f.geometry.geometries) IN
            [ i \in 1 .. n |->
                GeoFeature(TRUE, TRUE, <<>>, f.geometry.geometries[n + 1 - i]) ]
       ELSE << f >>

\* what one feature of the input pushes to out
NormalizedFeature(f) ==
  IF ~ f.present \/ f.geometry.type = "null" THEN <<>>
  ELSE IF f.geometry.type = "GeometryCollection" /\ f.geometry.isArray
       THEN [ i \in 1 .. Len(f.geometry.geometries) |->
                FlattenedChild(f, f.geometry.geometries[i]) ]
       ELSE << f >>

RECURSIVE NormalizedFeatures(_)
NormalizedFeatures(features) ==
  IF features = <<>> THEN <<>>
  ELSE NormalizedFeature(Head(features)) \o NormalizedFeatures(Tail(features))

normalizeFeatureCollection(fc) ==
  IF fc.type # "FeatureCollection" THEN fc
  ELSE [ type |-> "FeatureCollection", features |-> NormalizedFeatures(fc.features) ]

\* the geometries of the uploads of the model: points, collections of points,
\* a collection in a collection, a collection with a null child
InnerGeometries == { Point(1), Point(2), NullGeometry, GeometryCollection(<< Point(1) >>) }

GeometryLists ==
  { <<>> } \cup { << g >> : g \in InnerGeometries }
    \cup { << Point(1), g >> : g \in InnerGeometries }
    \cup { << Point(2), Point(1) >> }

Geometries ==
  { Point(1), Point(2), NullGeometry, CollectionWithoutArray }
    \cup { GeometryCollection(children) : children \in GeometryLists }

GeoProperties == { <<>>, << << "a", << "1" >> >> >> }

GeoFeatures ==
  { NullFeature }
    \cup { GeoFeature(TRUE, TRUE, properties, geometry) :
             properties \in GeoProperties, geometry \in Geometries }
    \cup { GeoFeature(TRUE, FALSE, <<>>, geometry) : geometry \in Geometries }

\* what toFeatureCollection may hand over: feature collections, and something
\* that is none
GeoCollections ==
  { [ type |-> "none", features |-> <<>> ] }
    \cup { [ type |-> "FeatureCollection", features |-> features ] :
             features \in UNION { [ 1 .. n -> GeoFeatures ] : n \in 0 .. MaxNormalized } }

NoNormalizeInput == [ type |-> "none", features |-> <<>> ]

PureIdle ==
  /\ normalizeInput = NoNormalizeInput
  /\ normalizeOutput = <<>>

BatchIdle ==
  /\ files = <<>>
  /\ batchPhase = "idle"
  /\ batch = NoBatch
  /\ fileState = NoFileState
  /\ storedMapping = NoRecord
  /\ sessionAttributeMapping = NoMapping
  /\ mapperDialog = NoDialog
  /\ lastUploadedLayer = 0
  /\ batchLog = <<>>

MapperIdle ==
  /\ applyInput = [ fc |-> NoGeojson, mapping |-> NoMapping ]
  /\ applyOutput = NoOutput
  /\ BatchIdle
  /\ PureIdle

\* ghost: nothing uploaded, nothing loaded, no matching has run
NoUse == [ran |-> FALSE, at |-> 0, loadedAt |-> 0, failed |-> FALSE,
          ids |-> {}, ensuredBefore |-> {}, ingestedBefore |-> {}]

NoUploadHistory ==
  [ uploads |-> 0, ensured |-> {}, ingested |-> {}, loadedAt |-> 0,
    loadFailed |-> FALSE, used |-> NoUse ]

UploadIdle ==
  /\ upload = NoUpload
  /\ table = <<>>
  /\ datasetFingerprintCache = NoCache
  /\ uploadSignature = {}
  /\ matched = NoMatch
  /\ uploadResult = NewResult(<<>>)
  /\ matchPhase = "idle"
  /\ uploadHistory = NoUploadHistory
  /\ MapperIdle


\* The stores anonymous saves leave behind: per name no entry, an entry under
\* the current prefix, or one under the legacy prefix.
AnonStores(rev) ==
  LET KeysOf(name) == IF rev = "keyval" THEN { legacyKey(name) }
                      ELSE { localKey(name), legacyKey(name) }
      Candidates == UNION { KeysOf(n) : n \in Names }
  IN UNION { [ D -> AnonValues(rev) ] :
                D \in { E \in SUBSET Candidates : Cardinality(E) <= MaxEntries } }

SyncIdle ==
  /\ dataRev = "scoped"
  /\ session = NoUser
  /\ store = << >>
  /\ tasks = NoTasks
  /\ remoteRows = {}
  /\ SyncInitCommon

\* Spec: one invocation of ingestFeatureCollection.
Init == IngestInit /\ SyncIdle /\ UploadIdle

Next == IngestNext

Spec == Init /\ [][Next]_vars

\* The remote procedure settles the call in flight, one way or the other.
RemoteAnswers == RemoteAccepts \/ \E error \in RemoteErrors : RemoteRejects(error)

\* SpecIngestFair: Spec with the scheduling of the runtime: a continuation
\* that is ready to run is run, and a call that was sent is answered.
IngestFairness ==
  /\ WF_vars(Enter)
  /\ WF_vars(RpcSettle)
  /\ WF_vars(Resume)
  /\ WF_vars(Finish)
  /\ WF_vars(RemoteAnswers)

SpecIngestFair == Init /\ [][Next]_vars /\ IngestFairness

\* SpecMigrate: invocations of migrateLocalToCloud, in each revision of
\* data.js, for a user who is signed in when they start.
MigrateInit ==
  /\ IngestInit
  /\ dataRev \in { "keyval", "scoped", "hierarchy" }
  /\ session \in Users
  /\ store \in AnonStores(dataRev)
  /\ tasks = NoTasks
  /\ remoteRows = {}
  /\ SyncInitCommon
  /\ UploadIdle

MigrateNext ==
  \/ MigStart
  \/ \E t \in TaskIds : MigrateStep(t)
  \/ \E t \in TaskIds : SaveStep(t)
  \/ SignOut
  \/ \E u \in Users : SignIn(u)

SpecMigrate == MigrateInit /\ [][MigrateNext]_vars

\* SpecAuth: one load of the page of the current revision (ui-auth.js,
\* data.js, auto-open-all.js), which starts anonymous with an empty store:
\* uploads, sign-ins and sign-outs while the page handler and the callbacks
\* run. The datasets table holds no row or one.
AuthInit ==
  /\ IngestInit
  /\ dataRev = "scoped"
  /\ session = NoUser
  /\ store = << >>
  /\ tasks = [ NoTasks EXCEPT ![1] =
                 [ IdleTask EXCEPT !.kind = "boot", !.pc = "boot_getUser" ] ]
  /\ remoteRows \in { rows \in RemoteContents : rows \subseteq { << "d1", "v1" >> } }
  /\ SyncInitCommon
  /\ UploadIdle

AuthNext ==
  \/ \E t \in TaskIds : BootGetUser(t)
  \/ \E t \in TaskIds : BootRegister(t)
  \/ \E name \in UploadNames : SaveStart(name)
  \/ \E t \in TaskIds : SaveStep(t)
  \/ \E t \in TaskIds : MigrateStep(t)
  \/ \E t \in TaskIds : OpenStep(t)
  \/ \E t \in TaskIds : ClearStep(t)
  \/ SignOut
  \/ \E u \in Users : SignIn(u)

SpecAuth == AuthInit /\ [][AuthNext]_vars

\* SpecCache: invocations of openAllDatasets for a user who is signed in when
\* they start, while the datasets table changes.
CacheInit ==
  /\ IngestInit
  /\ dataRev = "scoped"
  /\ session \in Users
  /\ store = << >>
  /\ tasks = NoTasks
  /\ remoteRows \in RemoteContents
  /\ SyncInitCommon
  /\ UploadIdle

CacheNext ==
  \/ \E forceRefresh \in BOOLEAN : OpenStart(forceRefresh)
  \/ \E t \in TaskIds : OpenStep(t)
  \/ \E rows \in RemoteContents : RemoteChange(rows)
  \/ SignOut
  \/ \E u \in Users : SignIn(u)

SpecCache == CacheInit /\ [][CacheNext]_vars

\* SpecStore: one page with or without a user, on which openAllDatasets,
\* migrateLocalToCloud and uploads run while idb-keyval may reject.
StoreInit ==
  /\ IngestInit
  /\ dataRev = "scoped"
  /\ session \in { NoUser } \cup Users
  /\ store \in AnonStores("scoped")
  /\ tasks = NoTasks
  /\ remoteRows \in { rows \in RemoteContents : rows \subseteq { << "d1", "v1" >> } }
  /\ SyncInitCommon
  /\ UploadIdle

\* No invocation is under way: the operations of this page are started one
\* after the other.
Settled ==
  /\ \A t \in TaskIds : tasks[t].pc \in { "idle", "done", "threw" }
  /\ Cardinality({ t \in TaskIds : tasks[t].pc # "idle" }) < MaxStarted

StoreNext ==
  \/ Settled /\ \E forceRefresh \in BOOLEAN : OpenStart(forceRefresh)
  \/ \E t \in TaskIds : OpenStep(t)
  \/ Settled /\ MigStart
  \/ \E t \in TaskIds : MigrateStep(t)
  \/ Settled /\ \E name \in UploadNames : SaveStart(name)
  \/ \E t \in TaskIds : SaveStep(t)
  \/ \E t \in TaskIds : StoreFails(t)

SpecStore == StoreInit /\ [][StoreNext]_vars

\* SpecScopes: a store with anonymous entries and cache entries of two
\* owners, on which migrateLocalToCloud, openAllDatasets and clearCloudCache
\* are called for the user of the session, who may sign out meanwhile.
CachedBefore ==
  { { << OtherOwner, "d1" >> }, { << "u1", "d1" >>, << OtherOwner, "d1" >> } }

ScopedStores ==
  { anon @@ [ k \in { cloudKey(row[1], row[2]) : row \in cached } |->
                CloudValue(<< k[4], "v1" >>) ] :
      anon \in AnonStores("scoped"), cached \in CachedBefore }

ScopesInit ==
  /\ IngestInit
  /\ dataRev = "scoped"
  /\ session \in Users
  /\ store \in ScopedStores
  /\ tasks = NoTasks
  /\ remoteRows \in { {}, { << "d1", "v2" >>, << "d2", "v1" >> } }
  /\ SyncInitCommon
  /\ UploadIdle

ScopesNext ==
  \/ Settled /\ MigStart
  \/ \E t \in TaskIds : MigrateStep(t)
  \/ \E t \in TaskIds : SaveStep(t)
  \/ Settled /\ \E forceRefresh \in BOOLEAN : OpenStart(forceRefresh)
  \/ \E t \in TaskIds : OpenStep(t)
  \/ Settled /\ \E userId \in Users : ClearStart(userId)
  \/ \E t \in TaskIds : ClearStep(t)
  \/ SignOut

SpecScopes == ScopesInit /\ [][ScopesNext]_vars

\* --- Specification: findMatchingDataset on bounded inputs ------------------

MatchInit ==
  /\ IngestInit
  /\ SyncIdle
  /\ table \in DatasetTables
  /\ datasetFingerprintCache = LoadedCache(table)
  /\ upload \in Uploads
  /\ uploadSignature = {}
  /\ matched = NoMatch
  /\ uploadResult = NewResult(upload.stem)
  /\ matchPhase = "ready"
  /\ uploadHistory = NoUploadHistory
  /\ MapperIdle

\* matchedDataset = await findMatchingDataset(normalised, stem), with the
\* fingerprints loaded
FindMatch ==
  /\ matchPhase = "ready"
  /\ uploadSignature' = buildSignature(upload.fc)
  /\ matched' = findMatchingDataset(upload.fc, upload.stem,
                                    datasetFingerprintCache.list)
  /\ uploadResult' = ResultAfterMatch(uploadResult, matched')
  /\ matchPhase' = "done"
  /\ UNCHANGED << upload, table, datasetFingerprintCache, uploadHistory >>
  /\ UNCHANGED << ingestVars, syncVars, mapperVars >>

MatchNext == FindMatch

SpecMatch == MatchInit /\ [][MatchNext]_vars

\* ------------------------------------------------------------------------
\* layer-upload.js: handleFile, one action per await, for the files of a
\* page load one after the other (processFiles awaits each handleFile)
\* ------------------------------------------------------------------------

\* the files the user picks: the second repeats the fields of the first and
\* adds one
UploadFiles ==
  { [stem |-> << "a" >>, fc |-> FeatureCollection(UploadedFields(1, 2))],
    [stem |-> << "b" >>, fc |-> FeatureCollection(UploadedFields(1, 3))] }

\* the datasets table of the user when the page loads
UploadTables ==
  { <<>>,
    << DatasetRow("d1", [name |-> << "a" >>, source_filename |-> <<>>],
                  FeatureCollection(StoredFields(1, 3))) >> }

FileName(stem) == stem \o << ".", "z", "i", "p" >>

IdsOf(list) == { list[i].id : i \in 1 .. Len(list) }

\* ghost: the datasets ensureDataset wrote since the session last changed
EnsuredNow(hist) == { e[1] : e \in { x \in hist.ensured : x[2] = authChanges } }

\* ghost: those of them whose feature ingest resolved
IngestedNow(hist) == { e[1] : e \in { x \in hist.ingested : x[2] = authChanges } }

\* ghost: the list a matching is given, and what had been written before it
UseOf(list, hist) ==
  [ ran |-> TRUE, at |-> authChanges, loadedAt |-> hist.loadedAt,
    failed |-> hist.loadFailed, ids |-> IdsOf(list),
    ensuredBefore |-> EnsuredNow(hist),
    ingestedBefore |-> IngestedNow(hist) \cap EnsuredNow(hist) ]

\* window.dispatchEvent(new CustomEvent("mnet:dataset", ...)): the listener of
\* data-bridge.js runs up to the await of getUser() in saveDataset
Dispatched(tks, name) ==
  [ tks EXCEPT ![FreeSlot(tks)] =
      [ IdleTask EXCEPT !.kind = "save", !.pc = "save_getUser",
                        !.name = name, !.stored = Uploaded ] ]

\* findMatchingDataset resolves with the list it was given; handleFile fills
\* the result, draws the layer, dispatches mnet:dataset and calls
\* ensureDataset(datasetNameForSave, file.name), which awaits getUser()
Matching(file, list, hist) ==
  /\ HasFree(tasks)
  /\ matched' = findMatchingDataset(file.fc, file.stem, list)
  /\ uploadResult' = ResultAfterMatch(NewResult(file.stem), matched')
  /\ tasks' = Dispatched(tasks, uploadResult'.datasetName)
  /\ matchPhase' = "ensure_getUser"
  /\ uploadHistory' = [ hist EXCEPT !.used = UseOf(list, hist) ]

\* handleFile(file) up to the first await of the matching: with
\* datasetFingerprintCache set (an empty array included) the list is returned
\* as it is, otherwise loadDatasetFingerprintCache awaits getUser()
HandleFile(file) ==
  /\ matchPhase \in { "idle", "done" }
  /\ uploadHistory.uploads < MaxUploads
  /\ upload' = file
  /\ uploadSignature' = buildSignature(file.fc)
  /\ LET hist == [ uploadHistory EXCEPT !.uploads = @ + 1 ] IN
       IF datasetFingerprintCache.loaded
       THEN Matching(file, datasetFingerprintCache.list, hist)
       ELSE /\ matched' = NoMatch
            /\ uploadResult' = NewResult(file.stem)
            /\ matchPhase' = "load_getUser"
            /\ uploadHistory' = hist
            /\ UNCHANGED tasks
  /\ UNCHANGED << table, datasetFingerprintCache >>
  /\ UNCHANGED << dataRev, session, store, remoteSubmits, reported, authChanges,
                  remoteRows, lastFetch, opened, currentUserId, registered,
                  history >>
  /\ UNCHANGED << ingestVars, mapperVars >>

\* loadDatasetFingerprintCache after getUser(): without a user
\* datasetFingerprintCache = [] and the matching returns null, with one the
\* select is sent
LoadGetUser ==
  /\ matchPhase = "load_getUser"
  /\ IF session = NoUser
     THEN /\ datasetFingerprintCache' = LoadedCache(<<>>)
          /\ Matching(upload, <<>>,
                      [ uploadHistory EXCEPT !.loadedAt = authChanges,
                                             !.loadFailed = FALSE ])
     ELSE /\ matchPhase' = "load_select"
          /\ UNCHANGED << datasetFingerprintCache, matched, uploadResult,
                          uploadHistory, tasks >>
  /\ UNCHANGED << upload, table, uploadSignature >>
  /\ UNCHANGED << dataRev, session, store, remoteSubmits, reported, authChanges,
                  remoteRows, lastFetch, opened, currentUserId, registered,
                  history >>
  /\ UNCHANGED << ingestVars, mapperVars >>

\* the rows a select sees: those of the user of the session
VisibleRows == IF session = NoUser THEN <<>> ELSE table

\* the select resolves: the rows become the fingerprints
LoadSelectOk ==
  /\ matchPhase = "load_select"
  /\ datasetFingerprintCache' = LoadedCache(VisibleRows)
  /\ Matching(upload, Fingerprints(VisibleRows),
              [ uploadHistory EXCEPT !.loadedAt = authChanges,
                                     !.loadFailed = FALSE ])
  /\ UNCHANGED << upload, table, uploadSignature >>
  /\ UNCHANGED << dataRev, session, store, remoteSubmits, reported, authChanges,
                  remoteRows, lastFetch, opened, currentUserId, registered,
                  history >>
  /\ UNCHANGED << ingestVars, mapperVars >>

\* the select fails: catch (err) { ...; datasetFingerprintCache = []; }
LoadSelectFails ==
  /\ matchPhase = "load_select"
  /\ datasetFingerprintCache' = LoadedCache(<<>>)
  /\ Matching(upload, <<>>,
              [ uploadHistory EXCEPT !.loadedAt = authChanges,
                                     !.loadFailed = TRUE ])
  /\ UNCHANGED << upload, table, uploadSignature >>
  /\ UNCHANGED << dataRev, session, store, remoteSubmits, reported, authChanges,
                  remoteRows, lastFetch, opened, currentUserId, registered,
                  history >>
  /\ UNCHANGED << ingestVars, mapperVars >>

\* ensureDataset after getUser(): if (!user) return null, and handleFile
\* returns without touching the fingerprints
EnsureGetUser ==
  /\ matchPhase = "ensure_getUser"
  /\ matchPhase' = IF session = NoUser THEN "done" ELSE "ensure_upsert"
  /\ UNCHANGED << upload, table, datasetFingerprintCache, uploadSignature,
                  matched, uploadResult, uploadHistory >>
  /\ UNCHANGED << ingestVars, syncVars, mapperVars >>

HasRow(rows, id) == \E i \in 1 .. Len(rows) : rows[i].id = id

DatasetOf(rows, id) == rows[CHOOSE i \in 1 .. Len(rows) : rows[i].id = id]

Without(rows, id) == SelectSeq(rows, LAMBDA r : r.id # id)

\* the table after upsert({ user_id, name, source_filename }) wrote the row
\* id: a row it had keeps its geojson
Upserted(rows, id, name, sourceFilename) ==
  << [ id |-> id, name |-> name, source_filename |-> sourceFilename,
       geojson |-> IF HasRow(rows, id) THEN DatasetOf(rows, id).geojson
                   ELSE NoGeojson ] >>
    \o Without(rows, id)

\* the rows the upsert may write: the schema decides whether a row of that
\* name is updated or a new row is inserted
UpsertTargets(rows, name) ==
  { id \in DatasetIds : HasRow(rows, id) => DatasetOf(rows, id).name = name }

\* ensureDataset resolves with the row ds; handleFile sets datasetId and
\* updatedExisting and calls ensureLayer(ds.id, "uploaded")
EnsureUpsertOk(id) ==
  /\ matchPhase = "ensure_upsert"
  /\ session # NoUser
  /\ id \in UpsertTargets(table, uploadResult.datasetName)
  /\ table' = Upserted(table, id, uploadResult.datasetName,
                       FileName(upload.stem))
  /\ uploadResult' =
       [ uploadResult EXCEPT !.datasetId = id,
                             !.updatedExisting = matched.found /\ matched.id = id ]
  /\ matchPhase' = "ensure_layer"
  /\ uploadHistory' =
       [ uploadHistory EXCEPT !.ensured = @ \cup { << id, authChanges >> } ]
  /\ UNCHANGED << upload, datasetFingerprintCache, uploadSignature, matched >>
  /\ UNCHANGED << ingestVars, syncVars, mapperVars >>

\* ensureDataset throws the error of the upsert: catch (e) logs "DB ingest
\* failed" and handleFile returns
EnsureUpsertFails ==
  /\ matchPhase = "ensure_upsert"
  /\ matchPhase' = "done"
  /\ UNCHANGED << upload, table, datasetFingerprintCache, uploadSignature,
                  matched, uploadResult, uploadHistory >>
  /\ UNCHANGED << ingestVars, syncVars, mapperVars >>

\* ensureLayer resolves and ingestFeatureCollection is called
EnsureLayerOk ==
  /\ matchPhase = "ensure_layer"
  /\ matchPhase' = "ingest"
  /\ UNCHANGED << upload, table, datasetFingerprintCache, uploadSignature,
                  matched, uploadResult, uploadHistory >>
  /\ UNCHANGED << ingestVars, syncVars, mapperVars >>

\* ensureLayer throws after the dataset row was written: the same catch
EnsureLayerFails ==
  /\ matchPhase = "ensure_layer"
  /\ matchPhase' = "done"
  /\ UNCHANGED << upload, table, datasetFingerprintCache, uploadSignature,
                  matched, uploadResult, uploadHistory >>
  /\ UNCHANGED << ingestVars, syncVars, mapperVars >>

\* ingestFeatureCollection resolves: result.cloudStored = true;
\* invalidateDatasetFingerprintCache();
IngestResolves ==
  /\ matchPhase = "ingest"
  /\ uploadResult' = [ uploadResult EXCEPT !.cloudStored = TRUE ]
  /\ datasetFingerprintCache' = NoCache
  /\ matchPhase' = "done"
  /\ uploadHistory' =
       [ uploadHistory EXCEPT
           !.ingested = @ \cup { << uploadResult.datasetId, authChanges >> } ]
  /\ UNCHANGED << upload, table, uploadSignature, matched >>
  /\ UNCHANGED << ingestVars, syncVars, mapperVars >>

\* ingestFeatureCollection rejects after the dataset row was written: the
\* same catch, and invalidateDatasetFingerprintCache() is not reached
IngestRejects ==
  /\ matchPhase = "ingest"
  /\ matchPhase' = "done"
  /\ UNCHANGED << upload, table, datasetFingerprintCache, uploadSignature,
                  matched, uploadResult, uploadHistory >>
  /\ UNCHANGED << ingestVars, syncVars, mapperVars >>

\* SpecUpload: the files of one page load, while the user signs in and out.
UploadInit ==
  /\ IngestInit
  /\ dataRev = "scoped"
  /\ session \in { NoUser } \cup Users
  /\ store = << >>
  /\ tasks = NoTasks
  /\ remoteRows = {}
  /\ SyncInitCommon
  /\ upload = NoUpload
  /\ table \in UploadTables
  /\ datasetFingerprintCache = NoCache
  /\ uploadSignature = {}
  /\ matched = NoMatch
  /\ uploadResult = NewResult(<<>>)
  /\ matchPhase = "idle"
  /\ uploadHistory = NoUploadHistory
  /\ MapperIdle

UploadNext ==
  \/ \E file \in UploadFiles : HandleFile(file)
  \/ LoadGetUser
  \/ LoadSelectOk
  \/ LoadSelectFails
  \/ EnsureGetUser
  \/ \E id \in DatasetIds : EnsureUpsertOk(id)
  \/ EnsureUpsertFails
  \/ EnsureLayerOk
  \/ EnsureLayerFails
  \/ IngestResolves
  \/ IngestRejects
  \/ \E t \in TaskIds : SaveStep(t)
  \/ SignOut
  \/ \E u \in Users : SignIn(u)

SpecUpload == UploadInit /\ [][UploadNext]_vars

\* ------------------------------------------------------------------------
\* SpecMapping: one call of applyMappingToFeatureCollection
\* ------------------------------------------------------------------------

MappingInit ==
  /\ IngestInit
  /\ SyncIdle
  /\ upload = NoUpload
  /\ table = <<>>
  /\ datasetFingerprintCache = NoCache
  /\ uploadSignature = {}
  /\ matched = NoMatch
  /\ uploadResult = NewResult(<<>>)
  /\ matchPhase = "idle"
  /\ uploadHistory = NoUploadHistory
  /\ applyInput \in
       UNION { [ fc : ShortCollections \cup TenFeatureCollections(mapping),
                 mapping : { mapping } ] : mapping \in Mappings }
  /\ applyOutput = NoOutput
  /\ BatchIdle
  /\ PureIdle

\* const { collection, dropped } = applyMappingToFeatureCollection(normalised, mapping)
ApplyMapping ==
  /\ applyOutput = NoOutput
  /\ applyOutput' = applyMappingToFeatureCollection(applyInput.fc, applyInput.mapping)
  /\ UNCHANGED << applyInput, batchVars, pureVars >>
  /\ UNCHANGED << ingestVars, syncVars, uploadVars >>

MappingNext == ApplyMapping

SpecMapping == MappingInit /\ [][MappingNext]_vars

\* ------------------------------------------------------------------------
\* layer-upload.js (the revision with the attribute mapper): processFiles
\* and handleFile, one action per await and per outcome
\* ------------------------------------------------------------------------

\* ghost: an entry of the log; the counts are those of the summary toast
Entry(file, what) ==
  [ file |-> file, what |-> what, successful |-> 0, stored |-> 0, total |-> 0 ]

Summary(counters, total) ==
  [ file |-> 0, what |-> "summary", successful |-> counters.successful,
    stored |-> counters.stored, total |-> total ]

CurrentFile == FileTable[files[batch.index]]

\* const stats = collectPropertyStats(featureCollection) of
\* requestAttributeMapping for the file being handled
CurrentStats == StatsTable[files[batch.index]]

\* handleFile(file) up to its first await: the extension test, and the call
\* of the parser
BeginFile(index, log) ==
  IF ~ FileTable[files[index]].accepted
  THEN /\ batchPhase' = "settled"
       /\ fileState' = NoFileState
       /\ batchLog' = Append(log, Entry(index, "alert_unsupported"))
  ELSE /\ batchPhase' = "parse"
       /\ fileState' =
            [ NoFileState EXCEPT !.result = NewFileResult(FileTable[files[index]].stem) ]
       /\ batchLog' = log

\* handleFile returns result
Settle(state, res, log) ==
  /\ batchPhase' = "settled"
  /\ fileState' = [ state EXCEPT !.result = res ]
  /\ batchLog' = log

\* handleFile from the mapping on, up to the await of getUser()
AfterMapping(state, mapping, log) ==
  LET out == MappedTable[files[batch.index]][mapping]
      kept == out.collection.features
      told == IF out.dropped > 0
              THEN Append(log, Entry(batch.index, "toast_skipped")) ELSE log
  IN  IF kept = <<>>
      THEN Settle(state, state.result,
                  Append(log, Entry(batch.index, "alert_nothing_mapped")))
      ELSE /\ batchPhase' = "getUser"
           /\ fileState' = [ state EXCEPT !.normalised = out.collection,
                                              !.result.features = Len(kept) ]
           /\ batchLog' = told

\* processFiles(files) up to the first await
StartBatch ==
  /\ batchPhase = "idle"
  /\ batch' = [ NoBatch EXCEPT !.index = 1 ]
  /\ BeginFile(1, batchLog)
  /\ UNCHANGED << files, storedMapping, sessionAttributeMapping, mapperDialog,
                  lastUploadedLayer >>
  /\ UNCHANGED << applyInput, applyOutput, pureVars >>
  /\ UNCHANGED << ingestVars, syncVars, uploadVars >>

\* the parser rejects: alert, return result
ParseRejects ==
  /\ batchPhase = "parse"
  /\ ~ CurrentFile.parses
  /\ Settle(fileState, fileState.result, Append(batchLog, Entry(batch.index, "alert_parse")))
  /\ UNCHANGED << files, batch, storedMapping, sessionAttributeMapping,
                  mapperDialog, lastUploadedLayer >>
  /\ UNCHANGED << applyInput, applyOutput, pureVars >>
  /\ UNCHANGED << ingestVars, syncVars, uploadVars >>

\* the parser resolves with no features: alert, return result
ParseEmpty ==
  /\ batchPhase = "parse"
  /\ CurrentFile.parses
  /\ CurrentFile.fc.features = <<>>
  /\ Settle(fileState, fileState.result, Append(batchLog, Entry(batch.index, "alert_empty")))
  /\ UNCHANGED << files, batch, storedMapping, sessionAttributeMapping,
                  mapperDialog, lastUploadedLayer >>
  /\ UNCHANGED << applyInput, applyOutput, pureVars >>
  /\ UNCHANGED << ingestVars, syncVars, uploadVars >>

ReusedMapping ==
  MappingWithoutDialog(loadStoredAttributeMapping(storedMapping),
                       sessionAttributeMapping, CurrentStats)

\* the file state once requestAttributeMapping was called
Requested(asked, returned) ==
  [ fileState EXCEPT
      !.request = [ asked |-> asked,
                    stored |-> loadStoredAttributeMapping(storedMapping),
                    session |-> sessionAttributeMapping,
                    returned |-> returned ] ]

\* the file state once the dialog was closed
Answered(asked, returned) ==
  [ fileState EXCEPT !.request.asked = asked, !.request.returned = returned ]

\* the parser resolves and requestAttributeMapping returns the remembered
\* mapping or the mapping of the session at once
ParseThenReuse ==
  /\ batchPhase = "parse"
  /\ CurrentFile.parses
  /\ CurrentFile.fc.features # <<>>
  /\ ReusedMapping # NoMapping
  /\ sessionAttributeMapping' = ReusedMapping
  /\ AfterMapping(Requested("reused", ReusedMapping), ReusedMapping, batchLog)
  /\ UNCHANGED << files, batch, storedMapping, mapperDialog, lastUploadedLayer >>
  /\ UNCHANGED << applyInput, applyOutput, pureVars >>
  /\ UNCHANGED << ingestVars, syncVars, uploadVars >>

\* the parser resolves, no mapping is reused and the file has no property to
\* map: showAttributeMapperDialog alerts and resolves with null, handleFile
\* returns result with cancelled = true
ParseThenNoProperties ==
  /\ batchPhase = "parse"
  /\ CurrentFile.parses
  /\ CurrentFile.fc.features # <<>>
  /\ ReusedMapping = NoMapping
  /\ CurrentStats.keys = {}
  /\ Settle(Requested("alerted", NoMapping),
            [ fileState.result EXCEPT !.cancelled = TRUE ],
            Append(batchLog, Entry(batch.index, "alert_no_properties")))
  /\ UNCHANGED << files, batch, storedMapping, sessionAttributeMapping,
                  mapperDialog, lastUploadedLayer >>
  /\ UNCHANGED << applyInput, applyOutput, pureVars >>
  /\ UNCHANGED << ingestVars, syncVars, uploadVars >>

\* the parser resolves and the dialog is shown with the defaults
ParseThenDialog ==
  /\ batchPhase = "parse"
  /\ CurrentFile.parses
  /\ CurrentFile.fc.features # <<>>
  /\ ReusedMapping = NoMapping
  /\ CurrentStats.keys # {}
  /\ mapperDialog' =
       [ open |-> TRUE, keys |-> CurrentStats.keys,
         mapping |-> DefaultMapping(loadStoredAttributeMapping(storedMapping),
                                    sessionAttributeMapping, CurrentStats),
         remember |-> loadStoredAttributeMapping(storedMapping).remember ]
  /\ batchPhase' = "dialog"
  /\ fileState' = [ Requested("dialog", NoMapping) EXCEPT
                       !.normalised = CurrentFile.fc ]
  /\ UNCHANGED << files, batch, storedMapping, sessionAttributeMapping,
                  lastUploadedLayer, batchLog >>
  /\ UNCHANGED << applyInput, applyOutput, pureVars >>
  /\ UNCHANGED << ingestVars, syncVars, uploadVars >>

\* the user clicks cancel: resolve(null), handleFile returns result with
\* cancelled = true
DialogCancel ==
  /\ batchPhase = "dialog"
  /\ mapperDialog' = [ mapperDialog EXCEPT !.open = FALSE ]
  /\ Settle(Answered("cancelled", NoMapping),
            [ fileState.result EXCEPT !.cancelled = TRUE ], batchLog)
  /\ UNCHANGED << files, batch, storedMapping, sessionAttributeMapping,
                  lastUploadedLayer >>
  /\ UNCHANGED << applyInput, applyOutput, pureVars >>
  /\ UNCHANGED << ingestVars, syncVars, uploadVars >>

\* the user submits the form (the apply button is enabled once the three
\* required selects have a value); the mapping is kept for the session and
\* stored or removed from localStorage
DialogSubmit(mapping, remember) ==
  /\ batchPhase = "dialog"
  /\ mapping \in DialogMappings(mapperDialog.keys)
  /\ RequiredSelected(mapping)
  /\ mapperDialog' = [ mapperDialog EXCEPT !.open = FALSE, !.mapping = mapping,
                                          !.remember = remember ]
  /\ IF mappingIsValid(mapping, CurrentStats)
     THEN /\ sessionAttributeMapping' = mapping
          /\ storedMapping' = storeAttributeMapping(storedMapping, mapping, remember)
          /\ AfterMapping(Answered("confirmed", mapping), mapping, batchLog)
     ELSE /\ Settle(Answered("cancelled", NoMapping),
                    [ fileState.result EXCEPT !.cancelled = TRUE ], batchLog)
          /\ UNCHANGED << sessionAttributeMapping, storedMapping >>
  /\ UNCHANGED << files, batch, lastUploadedLayer >>
  /\ UNCHANGED << applyInput, applyOutput, pureVars >>
  /\ UNCHANGED << ingestVars, syncVars, uploadVars >>

\* the same with remember checked, and localStorage.setItem throws (the quota
\* is exceeded): the catch of storeAttributeMapping logs a warning
DialogSubmitStoreThrows(mapping) ==
  /\ batchPhase = "dialog"
  /\ mapping \in DialogMappings(mapperDialog.keys)
  /\ RequiredSelected(mapping)
  /\ mappingIsValid(mapping, CurrentStats)
  /\ mapperDialog' = [ mapperDialog EXCEPT !.open = FALSE, !.mapping = mapping,
                                          !.remember = TRUE ]
  /\ sessionAttributeMapping' = mapping
  /\ AfterMapping(Answered("confirmed", mapping), mapping,
                  Append(batchLog, Entry(batch.index, "store_failed")))
  /\ UNCHANGED << files, batch, storedMapping, lastUploadedLayer >>
  /\ UNCHANGED << applyInput, applyOutput, pureVars >>
  /\ UNCHANGED << ingestVars, syncVars, uploadVars >>

\* getUser() rejects: handleFile throws and processFiles catches
GetUserRejects ==
  /\ batchPhase = "getUser"
  /\ Settle(fileState, ThrownResult, Append(batchLog, Entry(batch.index, "exception")))
  /\ UNCHANGED << files, batch, storedMapping, sessionAttributeMapping,
                  mapperDialog, lastUploadedLayer >>
  /\ UNCHANGED << applyInput, applyOutput, pureVars >>
  /\ UNCHANGED << ingestVars, syncVars, uploadVars >>

\* result.datasetName = inferDatasetName(normalised, result.datasetName)
NamedResult ==
  [ fileState.result EXCEPT
      !.datasetName = inferDatasetName(fileState.normalised, @) ]

\* getUser() resolves and renderGeoJSONOnMap throws, before or after it has
\* removed the layer of the file before: alert, return result
RenderThrows(removed) ==
  /\ batchPhase = "getUser"
  /\ lastUploadedLayer' = IF removed THEN 0 ELSE lastUploadedLayer
  /\ batchPhase' = "settled"
  /\ fileState' = [ fileState EXCEPT !.result = NamedResult,
                                     !.currentUser = session ]
  /\ batchLog' = Append(batchLog, Entry(batch.index, "alert_render"))
  /\ UNCHANGED << files, batch, storedMapping, sessionAttributeMapping,
                  mapperDialog >>
  /\ UNCHANGED << applyInput, applyOutput, pureVars >>
  /\ UNCHANGED << ingestVars, syncVars, uploadVars >>

DrawnLog ==
  Append(Append(batchLog, Entry(batch.index, "render")),
         Entry(batch.index, "event"))

\* getUser() resolves with no user: the layer is drawn, mnet:dataset is
\* dispatched, result.success = true
DrawAnonymous ==
  /\ batchPhase = "getUser"
  /\ session = NoUser
  /\ HasFree(tasks)
  /\ lastUploadedLayer' = batch.index
  /\ tasks' = Dispatched(tasks, NamedResult.datasetName)
  /\ batchPhase' = "settled"
  /\ fileState' = [ fileState EXCEPT !.result = [ NamedResult EXCEPT !.success = TRUE ],
                                     !.currentUser = NoUser ]
  /\ batchLog' = DrawnLog
  /\ UNCHANGED << files, batch, storedMapping, sessionAttributeMapping,
                  mapperDialog >>
  /\ UNCHANGED << applyInput, applyOutput, pureVars >>
  /\ UNCHANGED << dataRev, session, store, remoteSubmits, reported, authChanges,
                  remoteRows, lastFetch, opened, currentUserId, registered,
                  history >>
  /\ UNCHANGED << ingestVars, uploadVars >>

\* getUser() resolves with a user: the layer is drawn, mnet:dataset is
\* dispatched, ingestGrowerHierarchy is called
DrawThenIngest ==
  /\ batchPhase = "getUser"
  /\ session # NoUser
  /\ HasFree(tasks)
  /\ lastUploadedLayer' = batch.index
  /\ tasks' = Dispatched(tasks, NamedResult.datasetName)
  /\ batchPhase' = "ingest"
  /\ fileState' = [ fileState EXCEPT !.result = NamedResult,
                                     !.currentUser = session ]
  /\ batchLog' = DrawnLog
  /\ UNCHANGED << files, batch, storedMapping, sessionAttributeMapping,
                  mapperDialog >>
  /\ UNCHANGED << applyInput, applyOutput, pureVars >>
  /\ UNCHANGED << dataRev, session, store, remoteSubmits, reported, authChanges,
                  remoteRows, lastFetch, opened, currentUserId, registered,
                  history >>
  /\ UNCHANGED << ingestVars, uploadVars >>

\* ingestGrowerHierarchy resolves with a summary: cloudStored, updatedExisting
\* = fields_updated > 0, success
HierarchyIngestResolves(fieldsUpdated) ==
  /\ batchPhase = "ingest"
  /\ Settle(fileState, [ fileState.result EXCEPT !.cloudStored = TRUE,
                                      !.updatedExisting = fieldsUpdated,
                                      !.success = TRUE ],
            Append(batchLog, Entry(batch.index, "ingest_ok")))
  /\ UNCHANGED << files, batch, storedMapping, sessionAttributeMapping,
                  mapperDialog, lastUploadedLayer >>
  /\ UNCHANGED << applyInput, applyOutput, pureVars >>
  /\ UNCHANGED << ingestVars, syncVars, uploadVars >>

\* a variant of HierarchyIngestRejects that takes the layer off the map and
\* returns without success
HierarchyIngestRollsBack ==
  /\ batchPhase = "ingest"
  /\ lastUploadedLayer' = 0
  /\ Settle(fileState, fileState.result,
            Append(batchLog, Entry(batch.index, "ingest_failed")))
  /\ UNCHANGED << files, batch, storedMapping, sessionAttributeMapping,
                  mapperDialog >>
  /\ UNCHANGED << applyInput, applyOutput, pureVars >>
  /\ UNCHANGED << ingestVars, syncVars, uploadVars >>

\* ingestGrowerHierarchy rejects: the catch logs, success = true
HierarchyIngestRejects ==
  /\ batchPhase = "ingest"
  /\ Settle(fileState, [ fileState.result EXCEPT !.success = TRUE ],
            Append(batchLog, Entry(batch.index, "ingest_failed")))
  /\ UNCHANGED << files, batch, storedMapping, sessionAttributeMapping,
                  mapperDialog, lastUploadedLayer >>
  /\ UNCHANGED << applyInput, applyOutput, pureVars >>
  /\ UNCHANGED << ingestVars, syncVars, uploadVars >>

\* a variant of CancelBatch that goes on with the next file
CancelBatchGoesOn ==
  /\ batchPhase = "settled"
  /\ fileState.result.cancelled
  /\ batch.index < Len(files)
  /\ batch' = [ batch EXCEPT !.index = @ + 1 ]
  /\ BeginFile(batch.index + 1,
               Append(batchLog, Entry(batch.index, "toast_cancelled")))
  /\ UNCHANGED << files, storedMapping, sessionAttributeMapping, mapperDialog,
                  lastUploadedLayer >>
  /\ UNCHANGED << applyInput, applyOutput, pureVars >>
  /\ UNCHANGED << ingestVars, syncVars, uploadVars >>

\* res.cancelled: the toast "Upload cancelled.", and processFiles returns
CancelBatch ==
  /\ batchPhase = "settled"
  /\ fileState.result.cancelled
  /\ batchPhase' = "returned"
  /\ batchLog' = Append(batchLog, Entry(batch.index, "toast_cancelled"))
  /\ UNCHANGED << files, batch, fileState, storedMapping,
                  sessionAttributeMapping, mapperDialog, lastUploadedLayer >>
  /\ UNCHANGED << applyInput, applyOutput, pureVars >>
  /\ UNCHANGED << ingestVars, syncVars, uploadVars >>

\* const datasetName = res?.datasetName || filenameStem(file.name)
CountedName(res, file) ==
  IF res.datasetName # <<>> THEN res.datasetName ELSE file.stem

\* the counters of processFiles after a file
Counted(counters, res, file) ==
  [ counters EXCEPT
      !.processed = @ + 1,
      !.stored = IF res.cloudStored THEN @ + 1 ELSE @,
      !.successful = IF res.success THEN @ + 1 ELSE @,
      !.updatedNames = IF res.success /\ res.updatedExisting
                       THEN @ \cup { CountedName(res, file) } ELSE @,
      !.createdNames = IF res.success /\ ~ res.updatedExisting
                       THEN @ \cup { CountedName(res, file) } ELSE @ ]

\* the file is counted and the loop goes on to the next file
NextFile ==
  /\ batchPhase = "settled"
  /\ ~ fileState.result.cancelled
  /\ batch.index < Len(files)
  /\ batch' = [ Counted(batch, fileState.result, CurrentFile) EXCEPT
                  !.index = @ + 1 ]
  /\ BeginFile(batch.index + 1, batchLog)
  /\ UNCHANGED << files, storedMapping, sessionAttributeMapping, mapperDialog,
                  lastUploadedLayer >>
  /\ UNCHANGED << applyInput, applyOutput, pureVars >>
  /\ UNCHANGED << ingestVars, syncVars, uploadVars >>

\* the last file is counted and the summary toast is shown
FinishBatch ==
  /\ batchPhase = "settled"
  /\ ~ fileState.result.cancelled
  /\ batch.index = Len(files)
  /\ batch' = Counted(batch, fileState.result, CurrentFile)
  /\ batchPhase' = "returned"
  /\ batchLog' = Append(batchLog, Summary(batch', Len(files)))
  /\ UNCHANGED << files, fileState, storedMapping, sessionAttributeMapping,
                  mapperDialog, lastUploadedLayer >>
  /\ UNCHANGED << applyInput, applyOutput, pureVars >>
  /\ UNCHANGED << ingestVars, syncVars, uploadVars >>

\* SpecBatch: one call of processFiles on a batch of files. The listener of
\* mnet:dataset runs inside dispatchEvent up to the first await of saveDataset
\* (Dispatched); the later steps of the save tasks are those of SpecUpload and
\* write none of the variables of the batch.
BatchInit ==
  /\ IngestInit
  /\ dataRev = "scoped"
  /\ session \in { NoUser } \cup Users
  /\ store = << >>
  /\ tasks = NoTasks
  /\ remoteRows = {}
  /\ SyncInitCommon
  /\ upload = NoUpload
  /\ table = <<>>
  /\ datasetFingerprintCache = NoCache
  /\ uploadSignature = {}
  /\ matched = NoMatch
  /\ uploadResult = NewResult(<<>>)
  /\ matchPhase = "idle"
  /\ uploadHistory = NoUploadHistory
  /\ applyInput = [ fc |-> NoGeojson, mapping |-> NoMapping ]
  /\ applyOutput = NoOutput
  /\ files \in Batches
  /\ batchPhase = "idle"
  /\ batch = NoBatch
  /\ fileState = NoFileState
  /\ storedMapping \in StoredRecords
  /\ sessionAttributeMapping = NoMapping
  /\ mapperDialog = NoDialog
  /\ lastUploadedLayer = 0
  /\ batchLog = <<>>
  /\ PureIdle

BatchNext ==
  \/ StartBatch
  \/ ParseRejects
  \/ ParseEmpty
  \/ ParseThenReuse
  \/ ParseThenNoProperties
  \/ ParseThenDialog
  \/ DialogCancel
  \/ \E mapping \in KnownMappings, remember \in BOOLEAN :
        DialogSubmit(mapping, remember)
  \/ \E mapping \in KnownMappings :
        DialogSubmitStoreThrows(mapping)
  \/ GetUserRejects
  \/ \E removed \in BOOLEAN : RenderThrows(removed)
  \/ DrawAnonymous
  \/ DrawThenIngest
  \/ \E fieldsUpdated \in BOOLEAN : HierarchyIngestResolves(fieldsUpdated)
  \/ HierarchyIngestRejects
  \/ CancelBatch
  \/ NextFile
  \/ FinishBatch

SpecBatch == BatchInit /\ [][BatchNext]_vars

\* SpecNormalize: normalizeFeatureCollection called on a collection, and
\* called again on what it returned.
NormalizeInit ==
  /\ IngestInit
  /\ SyncIdle
  /\ upload = NoUpload
  /\ table = <<>>
  /\ datasetFingerprintCache = NoCache
  /\ uploadSignature = {}
  /\ matched = NoMatch
  /\ uploadResult = NewResult(<<>>)
  /\ matchPhase = "idle"
  /\ uploadHistory = NoUploadHistory
  /\ applyInput = [ fc |-> NoGeojson, mapping |-> NoMapping ]
  /\ applyOutput = NoOutput
  /\ BatchIdle
  /\ normalizeInput \in GeoCollections
  /\ normalizeOutput = <<>>

\* const normalised = normalizeFeatureCollection(fc)
Normalize ==
  /\ normalizeOutput = <<>>
  /\ normalizeOutput' = << normalizeFeatureCollection(normalizeInput) >>
  /\ UNCHANGED << normalizeInput, applyInput, applyOutput, batchVars >>
  /\ UNCHANGED << ingestVars, syncVars, uploadVars >>

\* normalizeFeatureCollection(normalised)
NormalizeAgain ==
  /\ Len(normalizeOutput) = 1
  /\ normalizeOutput' =
       Append(normalizeOutput, normalizeFeatureCollection(normalizeOutput[1]))
  /\ UNCHANGED << normalizeInput, applyInput, applyOutput, batchVars >>
  /\ UNCHANGED << ingestVars, syncVars, uploadVars >>

NormalizeNext ==
  \/ Normalize
  \/ NormalizeAgain

SpecNormalize == NormalizeInit /\ [][NormalizeNext]_vars

\* ------------------------------------------------------------------------
\* Chunked ingestion: properties
\* ------------------------------------------------------------------------

RECURSIVE SumOk(_)
\* The number of features of the remote calls of a log that succeeded.
SumOk(log) ==
  IF log = << >> THEN 0
  ELSE SumOk(Pop(log))
         + (IF log[Len(log)].result = "ok"
            THEN log[Len(log)].hi - log[Len(log)].lo ELSE 0)

Adaptive == revision = "adaptive"
Returned == ingPhase = "done" /\ outcome.kind = "value"
Threw == ingPhase = "done" /\ outcome.kind = "error"

\* C1: when ingestFeatureCollection returns normally, the count it returns is
\* the number of features the remote endpoint accepted over all the remote
\* calls of the invocation.
C1_ReturnedCountIsAccepted ==
  (Adaptive /\ Returned) => /\ outcome.value = accepted
              /\ outcome.value = SumOk(callLog)

\* C1 witness: a normal return after every call carrying more than the floor
\* size failed once with a statement timeout and its halves then succeeded.
C1_Witness ==
  /\ Adaptive
  /\ Returned
  /\ accepted > 2 * MIN_CHUNK_SIZE
  /\ \E k \in 1 .. Len(callLog) : callLog[k].result = "bisected"
  /\ \A k \in 1 .. Len(callLog) :
       callLog[k].result = "bisected" <=> callLog[k].hi - callLog[k].lo > MIN_CHUNK_SIZE

\* The reply in flight is a rejection and this step is the one that handles it.
HandlesRejection == rpc.state = "replied" /\ ~ rpc.ok /\ rpc' = NoRpc

\* C2: a remote failure that is not classified as a statement timeout is not
\* retried: the handling step rethrows that very error, every later step hands
\* it on unchanged towards the caller, and no remote call is issued after it.
C2_NonTimeoutNotRetried ==
  /\ [][ (Adaptive /\ HandlesRejection /\ ~ isStatementTimeout(rpc.error))
           => /\ ret'.kind = "error"
              /\ ret'.error = rpc.error
              /\ stack' = Pop(stack)
              /\ callLog'[Len(callLog')].result = "thrown" ]_vars
  /\ [][ (Adaptive /\ ret.kind = "error")
           => /\ callLog' = callLog
              /\ rpc' = NoRpc
              /\ \/ ret'.kind = "error" /\ ret'.error = ret.error
                 \/ Threw' /\ outcome'.error = ret.error ]_vars
  /\ [] ( Adaptive =>
            \A k \in 1 .. Len(callLog) :
              callLog[k].result = "thrown" => k = Len(callLog) )

\* C2 witness: the invocation ended with a non-timeout error of a call that
\* came after a successful one, and the features behind it were never sent.
C2_Witness ==
  /\ Adaptive
  /\ Threw
  /\ ~ isStatementTimeout(outcome.error)
  /\ Len(callLog) >= 2
  /\ callLog[1].result = "ok"
  /\ callLog[Len(callLog)].result = "thrown"
  /\ callLog[Len(callLog)].hi < nFeatures

\* m = ceil(n / 2)
IsCeilHalf(m, n) == 2 * m = n \/ 2 * m = n + 1
\* c = max(floor, floor(e / 2))
IsHalvedChunk(c, e) ==
  \E q \in 0 .. e : /\ (2 * q = e \/ 2 * q + 1 = e)
                    /\ c = IF q > MIN_CHUNK_SIZE THEN q ELSE MIN_CHUNK_SIZE

\* C3: a failed call is bisected and retried exactly when the failure is a
\* statement timeout, the working batch size is above the floor and the slice
\* has at least 2 features; the retry starts with the left half [lo, lo +
\* ceil(n/2)) under the halved batch size, and the right half [lo + ceil(n/2),
\* hi) is started, under the same halved size, only when the left half has
\* returned.
C3_BisectExactlyOnTimeoutAboveFloor ==
  /\ [][ (Adaptive /\ HandlesRejection) =>
           LET f == Top
               n == f.hi - f.lo
           IN IF /\ isStatementTimeout(rpc.error)
                 /\ f.effectiveChunk > MIN_CHUNK_SIZE
                 /\ n >= 2
              THEN /\ Len(stack') = Len(stack) + 1
                   /\ stack'[Len(stack)] = [ f EXCEPT !.pc = "left" ]
                   /\ LET c == stack'[Len(stack')]
                      IN /\ c.pc = "entry"
                         /\ c.lo = f.lo
                         /\ IsCeilHalf(c.hi - c.lo, n)
                         /\ IsHalvedChunk(c.chunkSize, f.effectiveChunk)
                   /\ ret'.kind = "none"
              ELSE /\ stack' = Pop(stack)
                   /\ ret'.kind = "error" ]_vars
  /\ [][ (stack # << >> /\ Top.pc = "left" /\ ret.kind = "value")
           => LET f == Top
              IN /\ Len(stack') = Len(stack) + 1
                 /\ stack'[Len(stack)].pc = "right"
                 /\ LET c == stack'[Len(stack')]
                    IN /\ c.pc = "entry"
                       /\ c.hi = f.hi
                       /\ IsCeilHalf(c.lo - f.lo, f.hi - f.lo)
                       /\ IsHalvedChunk(c.chunkSize, f.effectiveChunk) ]_vars
  /\ [] ( \A k \in 1 .. Len(stack) :
            (Adaptive /\ stack[k].pc = "left") =>
              \A j \in 1 .. Len(callLog) :
                ( /\ callLog[j].lo >= stack[k].lo
                  /\ callLog[j].hi <= stack[k].hi
                  /\ callLog[j].hi - callLog[j].lo < stack[k].hi - stack[k].lo )
                  => 2 * callLog[j].hi <= stack[k].lo + stack[k].hi + 1 )

\* C3 witness: an odd slice was bisected, its left half has returned and the
\* right half is being ingested.
C3_Witness ==
  /\ Adaptive
  /\ Len(stack) >= 2
  /\ stack[1].pc = "right"
  /\ (stack[1].hi - stack[1].lo) % 2 = 1
  /\ stack[1].leftCount > 0
  /\ callLog[1].result = "bisected"

\* The invocation was cut into several slices, an earlier remote call
\* succeeded and a later one failed fatally.
LaterSliceFailed ==
  /\ ingPhase = "done"
  /\ nFeatures > (IF Adaptive THEN EffectiveChunk(ChunkSizeOf(optChunk))
                               ELSE FixedChunkSizeOf(optChunk))
  /\ Len(callLog) >= 2
  /\ callLog[Len(callLog)].result = "thrown"
  /\ \E k \in 1 .. Len(callLog) - 1 : callLog[k].result = "ok"

\* C4 as claimed: after a fatal failure on a later slice the features of the
\* earlier slices stay accepted and their count is reported to the caller.
C4_PartialCountReported ==
  LaterSliceFailed => /\ accepted = SumOk(callLog)
                      /\ outcome.kind = "value"
                      /\ outcome.value = SumOk(callLog)

\* C4 amended: after a fatal failure on a later slice the features of the
\* earlier slices stay accepted by the remote endpoint, and the invocation
\* rejects with the error: no count reaches the caller.
C4_PartialKeptNotReported ==
  LaterSliceFailed => /\ accepted = SumOk(callLog)
                      /\ accepted > 0
                      /\ outcome.kind = "error"
                      /\ outcome.value = 0

\* C4 witness: an adaptive run over several slices that delivered at least a
\* floor-sized slice and then failed.
C4_Witness ==
  /\ Adaptive
  /\ LaterSliceFailed
  /\ accepted >= MIN_CHUNK_SIZE
  /\ accepted < nFeatures

\* The calls of the log that have been issued and not answered.
InFlight == { k \in 1 .. Len(callLog) : callLog[k].result = "pending" }

\* C5: at most one remote call is in flight, a call is issued only when every
\* earlier call has been answered, and the calls are issued depth-first: a
\* later call either lies wholly behind an earlier one or is a strictly
\* smaller part of an earlier call that was bisected.
C5_OneInFlightDepthFirst ==
  Adaptive =>
    /\ Cardinality(InFlight) <= 1
    /\ InFlight \subseteq { Len(callLog) }
    /\ (rpc.state = "none") <=> (InFlight = {})
    /\ \A i, j \in 1 .. Len(callLog) :
         i < j =>
           \/ callLog[j].lo >= callLog[i].hi
           \/ /\ callLog[i].result = "bisected"
              /\ callLog[i].lo <= callLog[j].lo
              /\ callLog[j].hi <= callLog[i].hi
              /\ callLog[j].hi - callLog[j].lo < callLog[i].hi - callLog[i].lo

\* C5 witness: both halves of the left half of a bisected call were sent and
\* answered, and the call for the right half is the only one in flight.
C5_Witness ==
  /\ Adaptive
  /\ Len(callLog) = 5
  /\ callLog[1].result = "bisected"
  /\ callLog[2].result = "bisected"
  /\ callLog[3].result = "ok"
  /\ callLog[4].result = "ok"
  /\ callLog[5].lo = callLog[2].hi
  /\ callLog[5].hi = callLog[1].hi
  /\ InFlight = { 5 }
  /\ rpc.state = "sent"

\* ------------------------------------------------------------------------
\* Migration of the anonymous entries: properties
\* ------------------------------------------------------------------------

\* Invocation t of migrateLocalToCloud found a user and has returned.
MigrationReturned(t) ==
  /\ tasks[t].kind = "migrate"
  /\ tasks[t].pc = "done"
  /\ tasks[t].user # NoUser

\* Invocation t of migrateLocalToCloud found a user and has settled, by
\* returning or by rejecting.
MigrationSettled(t) ==
  /\ tasks[t].kind = "migrate"
  /\ tasks[t].pc \in { "done", "threw" }
  /\ tasks[t].user # NoUser

\* C6 as claimed: when migrateLocalToCloud has returned for a signed-in user,
\* the run has deleted an entry (its del(rawKey) has resolved) exactly if the
\* remote submission of that entry succeeded in that run, an entry it
\* submitted is no longer in the store, and the count returned is the number
\* of entries the run deleted.
C6_DeletedIffSubmitted ==
  \A t \in TaskIds :
    (dataRev \in { "scoped", "hierarchy" } /\ MigrationReturned(t)) =>
      /\ \A k \in tasks[t].startKeys :
           /\ k \in tasks[t].deleted <=> k \in tasks[t].submitted
           /\ k \in tasks[t].submitted => k \notin DOMAIN store
      /\ tasks[t].moved = Cardinality(tasks[t].deleted)

\* The same statement for the grower-hierarchy revision alone, whose
\* migrateLocalToCloud does not go through saveDataset.
HierarchyDeletedIffSubmitted ==
  dataRev = "hierarchy" => C6_DeletedIffSubmitted

\* C7 as claimed: when a run of migrateLocalToCloud has settled, every entry
\* that was present when it listed the keys has been attempted, and an entry
\* whose migration failed has not been deleted by the run: it is still in the
\* store unless another run has migrated it.
C7_FailureDoesNotStopRun ==
  \A t \in TaskIds :
    MigrationSettled(t) =>
      /\ tasks[t].attempted = tasks[t].startKeys
      /\ \A k \in tasks[t].failed :
           /\ k \notin tasks[t].deleted
           /\ \/ k \in DOMAIN store
              \/ \E o \in TaskIds \ { t } : k \in tasks[o].deleted

\* The same statement for the revisions with a try block around the loop body.
TryBlockFailureDoesNotStopRun ==
  dataRev \in { "scoped", "hierarchy" } => C7_FailureDoesNotStopRun

\* ------------------------------------------------------------------------
\* Login after an anonymous upload: properties
\* ------------------------------------------------------------------------

\* The page handler has registered the callback and no invocation is under way.
Quiescent ==
  /\ registered
  /\ \A t \in TaskIds : tasks[t].pc \in { "idle", "done" }

\* The upload of name was stored while anonymous, then the user signed in
\* once and stayed signed in, and no remote submission was rejected.
OneLoginAfterSave(name) ==
  /\ name \in history.savedAnon
  /\ history.signIns = 1
  /\ authChanges = 1
  /\ history.submitFailures = 0

\* C8: a dataset saved under a name while anonymous is what loadDataset gives
\* for that name as long as nobody has signed in; once the user has signed in
\* (one sign-in, no rejected submission) and the page handler and the
\* callbacks have finished, the entry is no longer in the store, the remote
\* store has got it exactly once, and the one count shown to the user is 1.
C8_SavedThenMigratedOnce ==
  \A name \in UploadNames :
    /\ (name \in history.savedAnon /\ authChanges = 0) =>
         LoadDatasetAnon(name) = Uploaded
    /\ (OneLoginAfterSave(name) /\ Quiescent) =>
         /\ localKey(name) \notin DOMAIN store
         /\ legacyKey(name) \notin DOMAIN store
         /\ remoteSubmits[name] = 1
         /\ reported = << 1 >>

\* Both the page handler, which moved the entry, and a callback called with
\* the user have run migrateLocalToCloud.
C8_Witness ==
  /\ OneLoginAfterSave(<< "a" >>)
  /\ Quiescent
  /\ tasks[1].kind = "boot" /\ tasks[1].moved = 1
  /\ \E t \in TaskIds :
       /\ tasks[t].kind = "callback"
       /\ tasks[t].user # NoUser
       /\ tasks[t].moved = 0
  /\ reported = << 1 >>

\* The callback alone has run migrateLocalToCloud: the sign-in came after the
\* registration.
CallbackAloneMigrated ==
  /\ OneLoginAfterSave(<< "a" >>)
  /\ Quiescent
  /\ tasks[1].kind = "boot" /\ tasks[1].user = NoUser
  /\ \E t \in TaskIds : tasks[t].kind = "callback" /\ tasks[t].moved = 1

\* ------------------------------------------------------------------------
\* The cloud-scope cache: properties
\* ------------------------------------------------------------------------

\* C9 as claimed: at every instant the cloud-scope entries of an owner are
\* either none or exactly the rows of the last select that succeeded for
\* that owner.
C9_CacheEmptyOrLastFetch ==
  \A u \in Users :
    \/ CloudRowsOf(u) = {}
    \/ (lastFetch[u].fetched /\ CloudRowsOf(u) = lastFetch[u].rows)

\* C10 as claimed: when the invocation of openAllDatasets whose select was
\* the last to succeed for a user has returned, and no invocation has
\* overlapped another, the cloud-scope entries of that user are exactly the
\* rows of that select, also when it gave no rows.
C10_CacheHoldsFetch ==
  \A u \in Users :
    ( /\ lastFetch[u].fetched
      /\ tasks[lastFetch[u].by].pc = "done"
      /\ ~ history.overlap ) =>
      CloudRowsOf(u) = lastFetch[u].rows

\* The same statement for the selects that gave at least one row.
NonEmptyFetchIsCached ==
  \A u \in Users :
    ( /\ lastFetch[u].fetched
      /\ lastFetch[u].rows # {}
      /\ tasks[lastFetch[u].by].pc = "done"
      /\ ~ history.overlap ) =>
      CloudRowsOf(u) = lastFetch[u].rows

\* ------------------------------------------------------------------------
\* Logout: properties
\* ------------------------------------------------------------------------

\* The callback has been called for a change from user u to anonymous and has
\* returned.
LogoutCompleted(u) ==
  /\ session = NoUser
  /\ \E t \in TaskIds :
       /\ tasks[t].kind = "callback"
       /\ tasks[t].prevUser = u
       /\ tasks[t].pc = "done"

\* C11 as claimed: once the callback for a change from user u to anonymous
\* has returned and nothing else is under way, no cloud-scope entry of u is
\* in the store and no dataset layer is on the map.
C11_LogoutClearsCache ==
  \A u \in Users :
    (LogoutCompleted(u) /\ Quiescent) =>
      /\ CloudRowsOf(u) = {}
      /\ opened = {}

\* The same statement for a logout that found no invocation under way: every
\* invocation other than the logout callbacks started and ended signed in.
LogoutWhenIdleClearsCache ==
  \A u \in Users :
    ( /\ LogoutCompleted(u)
      /\ Quiescent
      /\ ~ history.busyLogout ) =>
      /\ CloudRowsOf(u) = {}
      /\ opened = {}

\* ------------------------------------------------------------------------
\* openAllDatasets: provenance of the returned rows
\* ------------------------------------------------------------------------

\* Invocation t of openAllDatasets found a user and has returned, and no
\* invocation has overlapped another.
OpenReturned(t) ==
  /\ tasks[t].kind = "open"
  /\ tasks[t].pc = "done"
  /\ tasks[t].user # NoUser
  /\ ~ history.overlap

\* When the select failed: the rows are the ones loadCachedCloudDatasets
\* gave, labelled "cache", or there are none and the label is "error".
FailedFetchFallsBack(t) ==
  tasks[t].fetchError =>
    /\ tasks[t].rows = tasks[t].results
    /\ tasks[t].source = IF tasks[t].rows # {} THEN "cache" ELSE "error"

\* The label of the rows of a select that succeeded; "empty" is the label
\* the code gives when there is nothing to draw at all.
IsLiveLabel(t) ==
  \/ tasks[t].source = "cloud"
  \/ (tasks[t].rows = {} /\ tasks[t].source = "empty")

\* C12 as claimed: when openAllDatasets has returned for a user, a select
\* that succeeded gives its own rows labelled "cloud", a select that failed
\* gives the cached rows labelled "cache" or no rows labelled "error", and
\* rows labelled "cloud" are the rows of the select.
C12_SourceLabels ==
  \A t \in TaskIds :
    OpenReturned(t) =>
      /\ tasks[t].fetched =>
           (tasks[t].rows = tasks[t].data /\ IsLiveLabel(t))
      /\ FailedFetchFallsBack(t)
      /\ tasks[t].source = "cloud" => tasks[t].rows = tasks[t].data

\* The same statement without the selects that succeeded with no rows.
SourceLabelsForNonEmptyFetch ==
  \A t \in TaskIds :
    OpenReturned(t) =>
      /\ (tasks[t].fetched /\ tasks[t].data # {}) =>
           (tasks[t].rows = tasks[t].data /\ tasks[t].source = "cloud")
      /\ FailedFetchFallsBack(t)
      /\ tasks[t].source = "cloud" => tasks[t].rows = tasks[t].data

\* A select that succeeded with no rows has returned rows of the cache.
StaleRowsAfterEmptyFetch ==
  \E t \in TaskIds :
    /\ OpenReturned(t)
    /\ tasks[t].fetched /\ tasks[t].data = {}
    /\ tasks[t].rows # {} /\ tasks[t].source = "cache"

\* ------------------------------------------------------------------------
\* Properties of the matching (SpecMatch)
\* ------------------------------------------------------------------------

MatchReturned == matchPhase = "done"

\* the fingerprints the matching ran on
Known == datasetFingerprintCache.list

\* whether some feature of the upload has a key
UploadHasKey ==
  \E i \in 1 .. Len(upload.fc.features) :
     buildFeatureKey(upload.fc.features[i]) # NoKey

\* the signature the matching built of the upload
UploadKeys == uploadSignature

UploadStem == toLowerCase(SelectSeq(upload.stem, IsAlphanumeric))

\* the positions of the datasets whose normalized name is that of the upload
NameTwins ==
  { i \in 1 .. Len(Known) :
      toLowerCase(SelectSeq(Known[i].name, IsAlphanumeric)) = UploadStem }

FirstOf(positions) == CHOOSE i \in positions : \A j \in positions : i <= j

OverlapWith(i) == Cardinality(UploadKeys \cap Known[i].signature)

\* the signature of the dataset that was returned
MatchedSignature ==
  Known[CHOOSE i \in 1 .. Len(Known) : Known[i].id = matched.id].signature

\* C13 as claimed: whenever a dataset with the normalized name of the upload
\* exists, findMatchingDataset returns a dataset of that name, tagged
\* matchReason=name.
C13_NameMatchAlwaysWins ==
  (MatchReturned /\ NameTwins # {}) =>
     /\ matched.found
     /\ matched.matchReason = "name"
     /\ matched.id \in { Known[i].id : i \in NameTwins }

\* C13 amended: when the upload has at least one feature key and its
\* normalized name is not empty, and a dataset with that normalized name
\* exists, findMatchingDataset returns the first such dataset of the list,
\* tagged matchReason=name, whatever the attribute overlap and the scores of
\* the other datasets.
C13_NameMatchWinsOverScoring ==
  (MatchReturned /\ UploadHasKey /\ UploadStem # <<>> /\ NameTwins # {}) =>
     /\ matched.found
     /\ matched.matchReason = "name"
     /\ matched.id = Known[FirstOf(NameTwins)].id
     /\ matched.name = Known[FirstOf(NameTwins)].name

\* C13 witness: a dataset was returned by name although its signature
\* shares nothing with the upload and another dataset shares three keys or
\* more with it.
C13_Witness ==
  /\ MatchReturned
  /\ matched.found
  /\ matched.matchReason = "name"
  /\ UploadKeys \cap MatchedSignature = {}
  /\ \E i \in 1 .. Len(Known) :
        /\ Known[i].id # matched.id
        /\ OverlapWith(i) >= MIN_MATCH_OVERLAP

\* The name of the upload equals that of a dataset, and nothing is returned
\* because no feature of the upload has a key.
NameTwinWithoutKeys ==
  /\ MatchReturned
  /\ NameTwins # {}
  /\ UploadStem # <<>>
  /\ ~ UploadHasKey
  /\ ~ matched.found

\* C14: findMatchingDataset never returns a dataset whose signature shares
\* no key with the signature of the upload, whatever the match reason.
C14_DisjointNeverMatched ==
  (MatchReturned /\ matched.found) => UploadKeys \cap MatchedSignature # {}

\* A dataset returned by attributes shares a key with the upload.
AttributeMatchSharesKey ==
  (MatchReturned /\ matched.found /\ matched.matchReason = "attributes") =>
     UploadKeys \cap MatchedSignature # {}

\* A dataset was returned by name and its signature shares no key with the
\* upload.
DisjointReturnedByName ==
  /\ MatchReturned
  /\ matched.found
  /\ matched.matchReason = "name"
  /\ UploadKeys \cap MatchedSignature = {}

\* the name lookup returns a dataset
NameApplies == UploadKeys # {} /\ UploadStem # <<>> /\ NameTwins # {}

\* (precision + recall) / 2 of the upload against the dataset at position i
ScoreAt(i) ==
  MeanScores[OverlapWith(i)][Cardinality(UploadKeys)]
            [Cardinality(Known[i].signature)]

\* the scores against the datasets of the list, in its order; 0 where
\* nothing is shared
ScoresInOrder ==
  [ i \in 1 .. Len(Known) |->
      IF OverlapWith(i) = 0 THEN ZeroScore ELSE ScoreAt(i) ] \o << >>

\* the datasets with overlap >= 3 or score >= 0.58, given the scores
QualifyingBy(scores) ==
  { i \in 1 .. Len(Known) :
      /\ OverlapWith(i) > 0
      /\ \/ OverlapWith(i) >= 3
         \/ ~ Less(scores[i], MIN_MATCH_SCORE) }

Qualifying == QualifyingBy(ScoresInOrder)

\* the first position among those of the highest score
BestBy(scores, qualifying) ==
  CHOOSE i \in qualifying :
    /\ \A j \in qualifying : ~ Less(scores[i], scores[j])
    /\ \A j \in qualifying : j < i => Less(scores[j], scores[i])

\* C15: when no name match applies, findMatchingDataset returns, tagged
\* matchReason=attributes, the dataset of the highest score among those with
\* overlap >= 3 or score >= 0.58, the first of the list among equal scores,
\* and nothing when no dataset clears that threshold.
C15_BestScoreFirstSeen ==
  (MatchReturned /\ ~ NameApplies) =>
     LET scores     == ScoresInOrder
         qualifying == QualifyingBy(scores)
         best       == BestBy(scores, qualifying)
     IN  IF qualifying = {} THEN ~ matched.found
         ELSE /\ matched.found
              /\ matched.matchReason = "attributes"
              /\ matched.id = Known[best].id
              /\ matched.overlap = OverlapWith(best)
              /\ matched.score = scores[best]

\* C15 witness: two datasets clear the threshold with one score, and the
\* first of the list was returned.
C15_Witness ==
  /\ MatchReturned
  /\ ~ NameApplies
  /\ Len(Known) = 2
  /\ Qualifying = { 1, 2 }
  /\ ScoreAt(1) = ScoreAt(2)
  /\ matched.found
  /\ matched.id = Known[1].id

\* Every dataset shares exactly 2 keys with the upload, the highest score
\* is 0.5, and nothing was returned.
OverlapTwoScoreHalfNoMatch ==
  /\ MatchReturned
  /\ ~ NameApplies
  /\ Len(Known) >= 1
  /\ \A i \in 1 .. Len(Known) :
        OverlapWith(i) = 2 /\ ~ Less(Divide(1, 2), ScoreAt(i))
  /\ \E i \in 1 .. Len(Known) : ScoreAt(i) = Divide(1, 2)
  /\ ~ matched.found

\* A dataset was returned for its overlap of 3 or more although its score
\* is below 0.58.
ReturnedOnOverlapAlone ==
  /\ MatchReturned
  /\ matched.found
  /\ matched.matchReason = "attributes"
  /\ matched.overlap >= 3
  /\ Less(matched.score, MIN_MATCH_SCORE)

\* A dataset was returned for its score although it shares fewer than 3
\* keys with the upload.
ReturnedOnScoreAlone ==
  /\ MatchReturned
  /\ matched.found
  /\ matched.matchReason = "attributes"
  /\ matched.overlap < 3

\* The second dataset was returned although, in exact arithmetic, its score
\* equals that of the first: the rounded scores differ.
RoundingBreaksTie ==
  /\ MatchReturned
  /\ Len(Known) = 2
  /\ Qualifying = { 1, 2 }
  /\ matched.id = Known[2].id
  /\ OverlapWith(1) * (Cardinality(UploadKeys) + Cardinality(Known[1].signature))
        * Cardinality(Known[2].signature)
     = OverlapWith(2) * (Cardinality(UploadKeys) + Cardinality(Known[2].signature))
        * Cardinality(Known[1].signature)

\* C16: findMatchingDataset returns nothing whenever no feature of the
\* upload has a key, so that its signature is empty, whatever datasets
\* exist and whatever the name of the upload is.
C16_EmptySignatureNoMatch ==
  (MatchReturned /\ ~ UploadHasKey) =>
     /\ uploadSignature = {}
     /\ matched = NoMatch

\* C16 witness: the upload has features but none with a key, a dataset of
\* its name exists, and nothing was returned.
C16_Witness ==
  /\ MatchReturned
  /\ Len(upload.fc.features) > 0
  /\ ~ UploadHasKey
  /\ UploadStem # <<>>
  /\ NameTwins # {}
  /\ matched = NoMatch

\* the positions of the stored datasets that hold 8 of the 10 features of
\* the Acme upload
AcmeStoredAt == { i \in 1 .. Len(table) : table[i].geojson = AcmeStored }

\* The Acme upload (10 features: Grower=Acme, Farm=North, Field=A1 for five
\* and Field=A2 for five) was matched against a list of named datasets that
\* has a dataset with 8 of those features, and no dataset has its name.
AcmeScenario ==
  /\ MatchReturned
  /\ upload.fc = AcmeUpload
  /\ AcmeStoredAt # {}
  /\ \A i \in 1 .. Len(Known) : Known[i].name # <<>>
  /\ ~ NameApplies

SignatureSizes == 1 .. MaxFields

\* C18 as claimed: there are signatures A and B of different sizes for which
\* the score of A matched against B differs from the score of B matched
\* against A.
C18_ScoreDependsOnDirection ==
  MatchReturned =>
    \E a \in SignatureSizes, b \in SignatureSizes :
       \E overlap \in 1 .. Min(a, b) :
          /\ a # b
          /\ ScoreOf(overlap, a, b) # ScoreOf(overlap, b, a)

\* the upload as a stored dataset, for the matching in the other direction
UploadAsDataset ==
  [ id |-> "upload", name |-> upload.stem, signature |-> uploadSignature,
    featureCount |-> Len(upload.fc.features) ]

\* the scoring of the returned dataset against the upload
Reverse == BestMatch(<< UploadAsDataset >>, MatchedSignature, 1, NoMatch)

\* C18 amended: the score does not depend on the direction. Whenever a
\* dataset B is returned by attributes for an upload A, matching B against A
\* gives the same overlap and the same score; precision and recall change
\* places.
C18_ScoreSameInBothDirections ==
  (MatchReturned /\ matched.found /\ matched.matchReason = "attributes") =>
     /\ Reverse.found
     /\ Reverse.overlap = matched.overlap
     /\ Reverse.score = matched.score
     /\ Reverse.precision = matched.recall
     /\ Reverse.recall = matched.precision

\* C18 witness: a dataset was returned by attributes whose signature has
\* another size than that of the upload, so that precision and recall differ.
C18_Witness ==
  /\ MatchReturned
  /\ matched.found
  /\ matched.matchReason = "attributes"
  /\ Cardinality(MatchedSignature) # Cardinality(uploadSignature)
  /\ matched.precision # matched.recall

\* ------------------------------------------------------------------------
\* The fingerprint cache across uploads and sessions: properties
\* ------------------------------------------------------------------------

\* the list the latest matching was given
LatestUse == uploadHistory.used

\* the matching was given a list that a select of the session it ran in
\* returned
UsedOwnList ==
  /\ LatestUse.ran
  /\ ~ LatestUse.failed
  /\ LatestUse.loadedAt = LatestUse.at

\* C19: whenever an upload created or updated a dataset row, the next
\* matching of the same session is given fingerprints that include that
\* dataset, also when the feature ingest that followed the row failed.
C19_NextMatchingSeesWrittenDatasets ==
  UsedOwnList => LatestUse.ensuredBefore \subseteq LatestUse.ids

\* C19 for the uploads whose feature ingest resolved: the dataset is among
\* the fingerprints the next matching of the session is given.
NextMatchingSeesIngestedDatasets ==
  UsedOwnList => LatestUse.ingestedBefore \subseteq LatestUse.ids

\* a matching that ran after an ingest of the same session resolved
MatchedAfterIngest == UsedOwnList /\ LatestUse.ingestedBefore # {}

\* a matching that ran on a list without a dataset the session had written
MatchedOnStaleList ==
  UsedOwnList /\ ~ (LatestUse.ensuredBefore \subseteq LatestUse.ids)

\* C20: a matching is never given a list that was loaded before the latest
\* login or logout.
C20_ListLoadedUnderCurrentSession ==
  LatestUse.ran => LatestUse.loadedAt = LatestUse.at

\* a signed-in upload was matched against the empty list an anonymous upload
\* had left
SignedInMatchedOnAnonymousList ==
  /\ LatestUse.ran
  /\ LatestUse.loadedAt = 0
  /\ LatestUse.at = 1
  /\ history.signIns = 1
  /\ table # <<>>
  /\ LatestUse.ids = {}

\* a matching that ran after a login or logout on a list loaded after it
MatchedOnReloadedList ==
  LatestUse.ran /\ LatestUse.at > 0 /\ LatestUse.loadedAt = LatestUse.at

\* ------------------------------------------------------------------------
\* Attribute mapping: properties of applyMappingToFeatureCollection
\* ------------------------------------------------------------------------

MappingApplied == applyOutput # NoOutput

AppliedFeatures == applyInput.fc.features

KeptFeatures == applyOutput.collection.features

CompleteFeatures ==
  { i \in 1 .. Len(AppliedFeatures) : IsComplete(AppliedFeatures[i], applyInput.mapping) }

\* the mapping reads a canonical property after an earlier assignment of the
\* same loop body has overwritten or deleted it
ReadsOverwritten(mapping) ==
  \/ mapping.farm = "grower_name" /\ mapping.grower # "grower_name"
  \/ mapping.field = "grower_name" /\ mapping.grower # "grower_name"
  \/ mapping.field = "farm_name" /\ mapping.farm # "farm_name"

\* a mapping was applied to 10 features of which 7 have the three required
\* properties present and non-empty under it
TenWithSevenComplete ==
  /\ MappingApplied
  /\ IsFeatureCollectionValue(applyInput.fc)
  /\ Len(AppliedFeatures) = 10
  /\ Cardinality(CompleteFeatures) = 7

\* C26 as claimed: the mapped-and-filtered collection has exactly 3 features
\* and the dropped count is 7.
C26_ThreeKeptSevenDropped ==
  TenWithSevenComplete => Len(KeptFeatures) = 3 /\ applyOutput.dropped = 7

\* C26: of 10 features with 7 complete under the mapping, the 7 complete ones
\* are kept and the dropped count is 10 minus the number kept; that is 7 kept
\* and 3 dropped unless the mapping reads a canonical property that an
\* earlier assignment overwrote, and never fewer than 7 kept.
C26_SevenKeptThreeDropped ==
  TenWithSevenComplete =>
     /\ Len(KeptFeatures) >= 7
     /\ applyOutput.dropped = 10 - Len(KeptFeatures)
     /\ ~ ReadsOverwritten(applyInput.mapping) =>
          Len(KeptFeatures) = 7 /\ applyOutput.dropped = 3

C26_Witness ==
  /\ TenWithSevenComplete
  /\ ~ ReadsOverwritten(applyInput.mapping)
  /\ Len(KeptFeatures) = 7
  /\ applyOutput.dropped = 3

\* 10 features with 7 complete, and more than 7 kept
TenWithMoreThanSevenKept == TenWithSevenComplete /\ Len(KeptFeatures) > 7

\* C27: the features kept are exactly those whose mapped grower, farm and
\* field values are non-empty after trimming, in their order and carrying
\* those values; every kept feature has non-empty grower_name, farm_name and
\* field_name; kept count + dropped count = input count.
C27_KeepsExactlyComplete ==
  (MappingApplied /\ IsFeatureCollectionValue(applyInput.fc)) =>
     /\ KeptFeatures =
          MappedFeatures(SelectSeq(AppliedFeatures,
                                   LAMBDA f : IsComplete(f, applyInput.mapping)),
                         applyInput.mapping)
     /\ \A i \in 1 .. Len(KeptFeatures) : hasAll(KeptFeatures[i].properties)
     /\ Len(KeptFeatures) + applyOutput.dropped = Len(AppliedFeatures)

\* every kept feature carries the three canonical fields, the counts add up,
\* and no complete feature is dropped
KeptCarryRequiredFields ==
  (MappingApplied /\ IsFeatureCollectionValue(applyInput.fc)) =>
     /\ \A i \in 1 .. Len(KeptFeatures) : hasAll(KeptFeatures[i].properties)
     /\ Len(KeptFeatures) + applyOutput.dropped = Len(AppliedFeatures)
     /\ Len(KeptFeatures) >= Cardinality(CompleteFeatures)

\* C27 for the mappings that read no overwritten property
KeepsExactlyCompleteWhenDistinct ==
  ~ ReadsOverwritten(applyInput.mapping) => C27_KeepsExactlyComplete

\* a feature is kept whose farm value under the mapping is empty
KeptWithoutFarmValue ==
  /\ MappingApplied
  /\ IsFeatureCollectionValue(applyInput.fc)
  /\ Len(AppliedFeatures) = 1
  /\ MappedValue(AppliedFeatures[1], applyInput.mapping.farm) = <<>>
  /\ Len(KeptFeatures) = 1

\* features were dropped and features were kept
KeptSomeDroppedSome ==
  /\ MappingApplied
  /\ ~ ReadsOverwritten(applyInput.mapping)
  /\ Len(KeptFeatures) > 0
  /\ applyOutput.dropped > 0

\* ------------------------------------------------------------------------
\* Properties of processFiles and handleFile (the mapper revision)
\* ------------------------------------------------------------------------

BatchRuns == batchPhase # "idle"

\* the positions of the log at which something of the given kind is reported
LogAt(what) == { k \in DOMAIN batchLog : batchLog[k].what = what }

\* the files for which something of the given kind is reported
LogFiles(what) == { batchLog[k].file : k \in LogAt(what) }

\* what the log holds about one file
LoggedFor(index) ==
  { batchLog[k].what : k \in { j \in DOMAIN batchLog : batchLog[j].file = index } }

\* the files whose handleFile returned with cancelled = true
CancelledFiles ==
  LogFiles("toast_cancelled")
    \cup (IF batchPhase \in { "settled", "returned" } /\ fileState.result.cancelled
          THEN { batch.index } ELSE {})

\* the layer that the log says is on the map: the one of the last render,
\* unless a later failure of renderGeoJSONOnMap may have removed it
LayerIsTheLastDrawn ==
  LET drawn == LogAt("render")
      failed == LogAt("alert_render")
      Last(S) == CHOOSE k \in S : \A j \in S : j <= k
  IN  IF drawn = {} THEN lastUploadedLayer = 0
      ELSE IF \E k \in failed : k > Last(drawn)
           THEN lastUploadedLayer \in { 0, batchLog[Last(drawn)].file }
           ELSE lastUploadedLayer = batchLog[Last(drawn)].file

\* the save tasks started by the mnet:dataset events
SaveTasks == { t \in TaskIds : tasks[t].kind = "save" }

\* C21: when the attribute mapping of file i is cancelled, nothing is drawn,
\* no mnet:dataset event is dispatched and no remote ingest is made for file
\* i, no later file of the batch is handled, and what the files before i did
\* stays: the layer last drawn is on the map and every save task started by
\* an event is still there.
C21_CancelStopsBatchKeepsEarlier ==
  BatchRuns =>
    \A i \in CancelledFiles :
      /\ LoggedFor(i) \cap { "render", "event", "ingest_ok", "ingest_failed" } = {}
      /\ \A k \in DOMAIN batchLog : batchLog[k].file <= i
      /\ batch.index = i
      /\ batchPhase \in { "settled", "returned" }
      /\ LayerIsTheLastDrawn
      /\ lastUploadedLayer # i
      /\ Cardinality(SaveTasks) = Cardinality(LogAt("event"))

\* the dialog of the second file was cancelled by the user after the first
\* file was drawn and ingested
C21_Witness ==
  /\ batchPhase = "returned"
  /\ CancelledFiles = { 2 }
  /\ "alert_no_properties" \notin LoggedFor(2)
  /\ "ingest_ok" \in LoggedFor(1)
  /\ lastUploadedLayer = 1

\* the kinds of failure of one file that are not a cancellation
FailureKinds ==
  { "alert_unsupported", "alert_parse", "alert_empty", "alert_nothing_mapped",
    "exception", "alert_render", "ingest_failed", "alert_no_properties" }

\* processFiles has returned before the last file of the batch
StoppedEarly == batchPhase = "returned" /\ batch.index < Len(files)

\* C22: a file that fails (unsupported, parse error, no features, no
\* mappable properties, render failure, ingest failure, exception) never stops
\* the batch: when processFiles returns before the last file, the user has
\* cancelled the dialog of the file it stopped at, and that file reported no
\* failure.
C22_OnlyUserCancelStops ==
  BatchRuns =>
    (StoppedEarly => LoggedFor(batch.index) \cap FailureKinds = {})

\* the part that holds: a failure other than a file without properties is
\* followed by the next file, and a run in which no handleFile returned
\* cancelled counts every file
OtherFailuresGoOn ==
  BatchRuns =>
    /\ StoppedEarly =>
         LoggedFor(batch.index) \cap (FailureKinds \ { "alert_no_properties" }) = {}
    /\ (batchPhase = "returned" /\ CancelledFiles = {}) =>
         batch.processed = Len(files)
    /\ \A i \in 1 .. (batch.index - 1) : i \notin CancelledFiles

\* processFiles returned at a first file that has features and no
\* properties, and the second file was never handled
StoppedByFileWithoutProperties ==
  /\ StoppedEarly
  /\ batch.index = 1
  /\ "alert_no_properties" \in LoggedFor(1)
  /\ LoggedFor(2) = {}

\* a first file failed at its drawing and the second file was handled
RenderFailureThenNextFile ==
  /\ "alert_render" \in LoggedFor(1)
  /\ batch.index = 2
  /\ "render" \in LoggedFor(2)

\* the summary toast is the last thing reported
SummaryShown ==
  /\ batchLog # <<>>
  /\ batchLog[Len(batchLog)].what = "summary"

\* C23: every run of processFiles over a non-empty batch ends with the
\* summary of the processed, succeeded and cloud-stored counts, whatever
\* failed or was cancelled.
C23_EveryRunEndsWithSummary ==
  BatchRuns => (batchPhase = "returned" => SummaryShown)

\* the part that holds: a run in which no handleFile returned cancelled ends
\* with the summary, whose counts are those of the files drawn and of the
\* files ingested, out of all the files of the batch
SummaryUnlessCancelled ==
  BatchRuns =>
    ((batchPhase = "returned" /\ CancelledFiles = {}) =>
       /\ SummaryShown
       /\ batchLog[Len(batchLog)] =
            [ file |-> 0, what |-> "summary",
              successful |-> Cardinality(LogFiles("render")),
              stored |-> Cardinality(LogFiles("ingest_ok")),
              total |-> Len(files) ]
       /\ batch.processed = Len(files))

\* processFiles returned after a cancelled dialog without any summary
ReturnedWithoutSummary ==
  /\ batchPhase = "returned"
  /\ CancelledFiles # {}
  /\ LogAt("summary") = {}
  /\ LogAt("alert_no_properties") = {}

\* a run with a failed file and a stored file ended with the summary
SummaryAfterFailure ==
  /\ batchPhase = "returned"
  /\ SummaryShown
  /\ LoggedFor(1) \cap FailureKinds # {}
  /\ "ingest_ok" \in LoggedFor(2)

\* ------------------------------------------------------------------------
\* Properties of the order of the files (js/layer-upload.js, data-bridge.js)
\* ------------------------------------------------------------------------

\* the saveDataset calls started by the mnet:dataset listener that have not
\* finished
PendingSaves ==
  { t \in TaskIds : tasks[t].kind = "save" /\ tasks[t].pc # "done" }

\* handleFile of the current file has not dispatched its event yet
BeforeDispatch == matchPhase \in { "load_getUser", "load_select" }

\* C24: the files are handled strictly one at a time: no step of a file
\* starts before every step started for the file before it, its save
\* included, has finished. So the save of at most one file is pending, and
\* none is while a file is being matched.
C24_OneFileAtATime ==
  uploadHistory.uploads > 0 =>
    /\ Cardinality(PendingSaves) <= 1
    /\ BeforeDispatch => PendingSaves = {}

\* the second file is being matched while the save of the first is pending
SecondFileWhileFirstSaves ==
  /\ uploadHistory.uploads = 2
  /\ BeforeDispatch
  /\ PendingSaves # {}

\* the saves of two files are pending together
TwoSavesPending == Cardinality(PendingSaves) = 2

\* ------------------------------------------------------------------------
\* Properties of handleFile after a failed ingest
\* ------------------------------------------------------------------------

\* handleFile of the current file has returned after its ingest was rejected
ReturnedAfterIngestFailure ==
  /\ batchPhase = "settled"
  /\ "ingest_failed" \in LoggedFor(batch.index)

\* C25: when the remote ingest of a file fails, the layer drawn for the file
\* stays on the map and the mnet:dataset event dispatched for it stays
\* dispatched (its save task is there), and handleFile returns success = true
\* with cloudStored = false.
C25_IngestFailureKeepsRenderAndEvent ==
  BatchRuns =>
    /\ \A i \in LogFiles("ingest_failed") :
         /\ { "render", "event" } \subseteq LoggedFor(i)
         /\ "ingest_ok" \notin LoggedFor(i)
    /\ ReturnedAfterIngestFailure =>
         /\ fileState.result.success
         /\ ~ fileState.result.cloudStored
         /\ ~ fileState.result.cancelled
         /\ lastUploadedLayer = batch.index
         /\ \E t \in SaveTasks : tasks[t].name = fileState.result.datasetName
         /\ Cardinality(SaveTasks) = Cardinality(LogAt("event"))

\* the ingest of the second file was rejected after the first was stored
C25_Witness ==
  /\ ReturnedAfterIngestFailure
  /\ batch.index = 2
  /\ "ingest_ok" \in LoggedFor(1)
  /\ lastUploadedLayer = 2
  /\ fileState.result.success

\* the file whose ingest failed is counted as succeeded and not as stored
IngestFailureCounted ==
  BatchRuns =>
    ((batchPhase = "returned" /\ CancelledFiles = {}) =>
       /\ batch.successful >= Cardinality(LogFiles("ingest_failed"))
       /\ batch.stored + Cardinality(LogFiles("ingest_failed")) <= batch.successful)

\* ------------------------------------------------------------------------
\* Properties of requestAttributeMapping
\* ------------------------------------------------------------------------

\* the property keys observed in the file being handled: those with a value
\* other than null in one of its first 200 features
ObservedKeys ==
  LET features == CurrentFile.fc.features IN
  { key \in { "owner", "Farm", "Field", "Block" } :
      \E i \in DOMAIN features :
        /\ i <= 200
        /\ \E j \in DOMAIN features[i].properties :
              /\ features[i].properties[j][1] = key
              /\ features[i].properties[j][2] # NullValue }

\* the grower, farm and field keys of a mapping are all observed
KeysObserved(mapping) ==
  /\ mapping # NoMapping
  /\ { mapping.grower, mapping.farm, mapping.field } \subseteq ObservedKeys

\* requestAttributeMapping was called for the file being handled
MappingRequested ==
  /\ BatchRuns
  /\ fileState.request.asked # "none"

\* C28: requestAttributeMapping returns the remembered mapping without
\* opening the dialog whenever a remembered mapping exists whose grower, farm
\* and field keys are all observed in the file; otherwise the persisted
\* mapping is not applied silently: what is returned without a dialog is then
\* the mapping of the session, with observed keys, and not the persisted one.
C28_RememberedReusedOnlyWhenValid ==
  MappingRequested =>
    LET request == fileState.request IN
    IF request.stored.remember /\ KeysObserved(request.stored.mapping)
    THEN /\ request.asked = "reused"
         /\ request.returned = request.stored.mapping
         /\ sessionAttributeMapping = request.stored.mapping
         /\ storedMapping = Record(TRUE, request.stored.mapping)
    ELSE request.asked = "reused" =>
           /\ request.returned = request.session
           /\ KeysObserved(request.returned)
           /\ request.stored.exists =>
                request.returned # request.stored.mapping

\* the remembered mapping was reused for the second file of a batch
C28_Witness ==
  /\ MappingRequested
  /\ batch.index = 2
  /\ fileState.request.asked = "reused"
  /\ fileState.request.stored.remember
  /\ fileState.request.returned = fileState.request.stored.mapping
  /\ batchPhase = "getUser"

\* a remembered mapping that names a key the file does not have in its
\* sample made the dialog open
RememberedInvalidOpensDialog ==
  /\ MappingRequested
  /\ fileState.request.stored.remember
  /\ fileState.request.asked = "dialog"
  /\ mapperDialog.open

\* the mapping of the session was reused although another one is remembered
SessionReusedOverRemembered ==
  /\ MappingRequested
  /\ fileState.request.stored.remember
  /\ fileState.request.asked = "reused"
  /\ fileState.request.returned # fileState.request.stored.mapping

\* the dialog of the file being handled was confirmed
MappingConfirmed ==
  /\ BatchRuns
  /\ fileState.request.asked = "confirmed"

\* C29: after a mapping is confirmed in the dialog, a persisted record exists
\* if and only if the confirmation asked to remember; the mapping is held in
\* session memory in both cases.
C29_RecordExistsIffRemember ==
  MappingConfirmed =>
    /\ storedMapping.exists <=> mapperDialog.remember
    /\ mapperDialog.remember => storedMapping = Record(TRUE, mapperDialog.mapping)
    /\ sessionAttributeMapping = mapperDialog.mapping

\* localStorage.setItem threw when the mapping of the file being handled was
\* stored
StoreFailed == "store_failed" \in LoggedFor(batch.index)

\* C29 as amended: without remember no record remains; with remember the
\* record is the confirmed mapping, replacing any earlier record, unless
\* localStorage.setItem threw, and then the record is what it was before the
\* confirmation; the confirmed mapping is the mapping of the session in every
\* case.
C29_RecordFollowsRememberUnlessWriteFails ==
  MappingConfirmed =>
    /\ sessionAttributeMapping = mapperDialog.mapping
    /\ fileState.request.returned = mapperDialog.mapping
    /\ ~ mapperDialog.remember => storedMapping = NoRecord
    /\ (mapperDialog.remember /\ ~ StoreFailed) =>
         storedMapping = Record(TRUE, mapperDialog.mapping)
    /\ (mapperDialog.remember /\ StoreFailed) =>
         storedMapping = IF fileState.request.stored.exists
                         THEN Record(TRUE, fileState.request.stored.mapping)
                         ELSE NoRecord

\* a mapping confirmed without remember removed the record of another mapping
C29_Witness ==
  /\ MappingConfirmed
  /\ ~ mapperDialog.remember
  /\ fileState.request.stored.exists
  /\ storedMapping = NoRecord
  /\ sessionAttributeMapping = mapperDialog.mapping

\* a mapping confirmed with remember replaced the record of another mapping
RememberReplacedRecord ==
  /\ MappingConfirmed
  /\ mapperDialog.remember
  /\ fileState.request.stored.exists
  /\ fileState.request.stored.mapping # mapperDialog.mapping
  /\ storedMapping = Record(TRUE, mapperDialog.mapping)

\* remember was asked and no record exists, the write having failed
RememberWithoutRecord ==
  /\ MappingConfirmed
  /\ mapperDialog.remember
  /\ storedMapping = NoRecord

\* requestAttributeMapping has returned for the file being handled
MappingReturned ==
  /\ MappingRequested
  /\ fileState.request.asked # "dialog"

\* C30: every mapping returned by requestAttributeMapping, remembered, of the
\* session or confirmed in the dialog, has its grower, farm and field keys
\* among the keys observed in the first 200 features of the file; in every
\* other case it returns null and handleFile returns cancelled.
C30_ReturnedMappingHasObservedKeys ==
  MappingReturned =>
    LET request == fileState.request IN
    IF request.asked \in { "reused", "confirmed" }
    THEN /\ KeysObserved(request.returned)
         /\ sessionAttributeMapping = request.returned
         /\ ~ fileState.result.cancelled
    ELSE /\ request.returned = NoMapping
         /\ fileState.result.cancelled
         /\ batchPhase \in { "settled", "returned" }

\* a mapping was confirmed for the file of 201 features whose block column
\* starts after the sample
C30_Witness ==
  /\ MappingReturned
  /\ fileState.request.asked = "confirmed"
  /\ Len(CurrentFile.fc.features) > 200
  /\ "Block" \notin ObservedKeys
  /\ fileState.request.stored.mapping.field = "Block"
  /\ fileState.request.returned.field = "Field"

\* the mapping of the session, valid for the first file, was not returned for
\* a second file that lacks one of its keys, and the user cancelled
SessionMappingNotReturned ==
  /\ MappingReturned
  /\ batch.index = 2
  /\ fileState.request.session # NoMapping
  /\ ~ KeysObserved(fileState.request.session)
  /\ fileState.request.asked = "cancelled"

\* ------------------------------------------------------------------------
\* Properties of normalizeFeatureCollection
\* ------------------------------------------------------------------------

NormalizedOnce ==
  /\ Len(normalizeOutput) >= 1
  /\ normalizeInput.type = "FeatureCollection"

NormalizedTwice ==
  /\ Len(normalizeOutput) = 2
  /\ normalizeInput.type = "FeatureCollection"

\* the feature has a geometry that is a collection with an array of children
IsFlattened(f) ==
  /\ f.present
  /\ f.geometry.type = "GeometryCollection"
  /\ f.geometry.isArray

\* a collection of the input has a child that is null or is a collection
\* itself
HasNullOrNestedChild ==
  \E i \in DOMAIN normalizeInput.features :
    /\ IsFlattened(normalizeInput.features[i])
    /\ \E j \in DOMAIN normalizeInput.features[i].geometry.geometries :
          LET child == normalizeInput.features[i].geometry.geometries[j] IN
          child.type = "null" \/ (child.type = "GeometryCollection" /\ child.isArray)

\* C31: normalising what a normalisation returned returns the same
\* collection: normalizeFeatureCollection(normalizeFeatureCollection(fc)) =
\* normalizeFeatureCollection(fc) for every fc.
C31_NormalizeIdempotent ==
  NormalizedTwice => normalizeOutput[2] = normalizeOutput[1]

\* the part that holds: the second normalisation changes nothing unless a
\* collection of the input has a null child or a collection as a child
IdempotentWithoutNullOrNestedChild ==
  (NormalizedTwice /\ ~ HasNullOrNestedChild) =>
    normalizeOutput[2] = normalizeOutput[1]

\* a collection in a collection was flattened again by the second call
NestedFlattenedAgain ==
  /\ NormalizedTwice
  /\ Len(normalizeInput.features) = 1
  /\ normalizeInput.features[1].geometry = GeometryCollection(<< GeometryCollection(<< Point(1) >>) >>)
  /\ normalizeOutput[1].features[1].geometry = GeometryCollection(<< Point(1) >>)
  /\ normalizeOutput[2].features[1].geometry = Point(1)

\* a collection of two points stayed as flattened by the first call
FlattenedOnce ==
  /\ NormalizedTwice
  /\ Len(normalizeInput.features) = 1
  /\ Len(normalizeOutput[1].features) = 2
  /\ normalizeOutput[2] = normalizeOutput[1]

\* the number of features the input feature is replaced by
CountFor(f) ==
  IF ~ f.present \/ f.geometry.type = "null" THEN 0
  ELSE IF IsFlattened(f) THEN Len(f.geometry.geometries)
  ELSE 1

\* the number of output features that stand for the first k input features
RECURSIVE OffsetOf(_, _)
OffsetOf(features, k) ==
  IF k = 0 THEN 0 ELSE OffsetOf(features, k - 1) + CountFor(features[k])

\* C32: a feature whose geometry is a GeometryCollection of N children is
\* replaced by exactly N features, in child order, each with a copy of the
\* properties of the parent (none for properties: null); every other
\* feature with a geometry is kept as it is, in its relative order.
C32_CollectionsFlattenedInPlace ==
  NormalizedOnce =>
    LET input == normalizeInput.features
        out == normalizeOutput[1].features
    IN  /\ Len(out) = OffsetOf(input, Len(input))
        /\ \A k \in DOMAIN input :
             LET f == input[k]
                 at == OffsetOf(input, k - 1)
             IN  IF IsFlattened(f)
                 THEN \A j \in DOMAIN f.geometry.geometries :
                        /\ out[at + j].geometry = f.geometry.geometries[j]
                        /\ out[at + j].present
                        /\ out[at + j].hasProperties
                        /\ out[at + j].properties =
                             (IF f.hasProperties THEN f.properties ELSE <<>>)
                 ELSE CountFor(f) = 1 => out[at + 1] = f

\* a collection of two points between two points: four features, in order
C32_Witness ==
  /\ NormalizedOnce
  /\ Len(normalizeInput.features) = MaxNormalized
  /\ normalizeInput.features[1].geometry = Point(2)
  /\ normalizeInput.features[2].geometry = GeometryCollection(<< Point(2), Point(1) >>)
  /\ normalizeInput.features[2].properties # <<>>
  /\ Len(normalizeOutput[1].features) = 3
  /\ normalizeOutput[1].features[2].geometry = Point(2)
  /\ normalizeOutput[1].features[3].geometry = Point(1)
  /\ normalizeOutput[1].features[3].properties = normalizeInput.features[2].properties

\* C33: every feature of the output has a geometry that is not null, for
\* every input, inputs with collections whose children are null included.
C33_OutputGeometriesNotNull ==
  NormalizedOnce =>
    \A i \in DOMAIN normalizeOutput[1].features :
      normalizeOutput[1].features[i].geometry.type # "null"

\* the part that holds: a feature of the output without a geometry is
\* always the null child of a collection of the input
NullGeometryOnlyFromNullChild ==
  NormalizedOnce =>
    \A i \in DOMAIN normalizeOutput[1].features :
      normalizeOutput[1].features[i].geometry.type = "null" =>
        \E k \in DOMAIN normalizeInput.features :
          /\ IsFlattened(normalizeInput.features[k])
          /\ \E j \in DOMAIN normalizeInput.features[k].geometry.geometries :
                normalizeInput.features[k].geometry.geometries[j].type = "null"

\* the null child of a collection became a feature of the output
NullChildKept ==
  /\ NormalizedOnce
  /\ Len(normalizeInput.features) = 1
  /\ normalizeInput.features[1].geometry = GeometryCollection(<< Point(1), NullGeometry >>)
  /\ Len(normalizeOutput[1].features) = 2
  /\ normalizeOutput[1].features[2].geometry = NullGeometry

\* features without a geometry were dropped
NullGeometryDropped ==
  /\ NormalizedOnce
  /\ Len(normalizeInput.features) = MaxNormalized
  /\ normalizeInput.features[1].geometry = NullGeometry
  /\ normalizeOutput[1].features = << normalizeInput.features[2] >>

\* ------------------------------------------------------------------------
\* Failures of the local store (SpecStore)
\* ------------------------------------------------------------------------

\* The invocations in which a call of idb-keyval rejected
StoreRejected == { t \in TaskIds : tasks[t].storeError # "" }

\* C34: a read or a write of the local store that fails during
\* openAllDatasets, migrateLocalToCloud or the anonymous save never makes the
\* surrounding operation fail.
C34_StoreFailureNeverRejects ==
  \A t \in StoreRejected : tasks[t].pc # "threw"

\* What the code does guarantee: the operation rejects only for a failed read
\* (keys or get), never for a failed write (set or del), and the anonymous
\* save never rejects in its listener.
OnlyReadFailuresReject ==
  \A t \in StoreRejected :
    tasks[t].pc = "threw" =>
      /\ tasks[t].storeError \in { "keys", "get" }
      /\ tasks[t].kind \in { "open", "migrate" }

\* openAllDatasets rejected because the seeding read of the cache rejected
OpenRejectedBySeedRead ==
  \E t \in StoreRejected :
    /\ tasks[t].kind = "open"
    /\ tasks[t].pc = "threw"
    /\ tasks[t].lcRet = "seed"

\* migrateLocalToCloud rejected because get(rawKey) rejected
MigrateRejectedByGet ==
  \E t \in StoreRejected :
    /\ tasks[t].kind = "migrate"
    /\ tasks[t].pc = "threw"
    /\ tasks[t].storeError = "get"

\* a failed write of the cache was caught and openAllDatasets returned
CacheWriteFailureCaught ==
  \E t \in StoreRejected :
    /\ tasks[t].kind = "open"
    /\ tasks[t].pc = "done"
    /\ tasks[t].storeError = "set"

\* ------------------------------------------------------------------------
\* Attribute mapping: the values of the kept features (SpecMapping)
\* ------------------------------------------------------------------------

\* the feature is kept when the mapping is applied to it alone
KeptAlone(f) ==
  Len(applyMappingToFeatureCollection(FeatureCollection(<< f >>),
                                      applyInput.mapping).collection.features) = 1

\* the place in the input of the k-th kept feature
OriginOf(k) ==
  CHOOSE i \in 1 .. Len(AppliedFeatures) :
    /\ KeptAlone(AppliedFeatures[i])
    /\ Cardinality({ j \in 1 .. i : KeptAlone(AppliedFeatures[j]) }) = k

\* props[targetKey] is the trimmed text of the original value under sourceKey
CarriesOriginal(props, targetKey, original, sourceKey) ==
  IF MappedValue(original, sourceKey) = <<>>
  THEN ~ hasOwnProperty(props, targetKey)
  ELSE /\ hasOwnProperty(props, targetKey)
       /\ PropertyOf(props, targetKey) = MappedValue(original, sourceKey)

\* C35: after applyMappingToFeatureCollection each kept feature's
\* grower_name, farm_name and field_name (and crop_type when a crop key is
\* mapped) is the trimmed text of that feature's original value under the
\* mapped source key, whatever source keys the mapping names.
C35_KeptCarryOriginalValues ==
  (MappingApplied /\ IsFeatureCollectionValue(applyInput.fc)) =>
     \A k \in 1 .. Len(KeptFeatures) :
       LET original == AppliedFeatures[OriginOf(k)]
           props    == KeptFeatures[k].properties
           mapping  == applyInput.mapping
       IN  /\ CarriesOriginal(props, "grower_name", original, mapping.grower)
           /\ CarriesOriginal(props, "farm_name", original, mapping.farm)
           /\ CarriesOriginal(props, "field_name", original, mapping.field)
           /\ mapping.crop # "" =>
                CarriesOriginal(props, "crop_type", original, mapping.crop)

\* C35 for the mappings that read no property overwritten earlier in the
\* loop body
CarryOriginalValuesWhenDistinct ==
  ~ ReadsOverwritten(applyInput.mapping) => C35_KeptCarryOriginalValues

\* a kept feature whose farm_name is the trimmed grower, not the value it was
\* uploaded with under the mapped farm key
FarmNameIsTheGrower ==
  /\ MappingApplied
  /\ IsFeatureCollectionValue(applyInput.fc)
  /\ Len(AppliedFeatures) = 1
  /\ Len(KeptFeatures) = 1
  /\ MappedValue(AppliedFeatures[1], applyInput.mapping.farm) # <<>>
  /\ PropertyOf(KeptFeatures[1].properties, "farm_name")
       # MappedValue(AppliedFeatures[1], applyInput.mapping.farm)
  /\ PropertyOf(KeptFeatures[1].properties, "farm_name")
       = MappedValue(AppliedFeatures[1], applyInput.mapping.grower)

\* a kept feature with a crop_type read through the mapping
CropTypeMapped ==
  /\ MappingApplied
  /\ applyInput.mapping.crop # ""
  /\ ~ ReadsOverwritten(applyInput.mapping)
  /\ Len(KeptFeatures) > 0
  /\ hasOwnProperty(KeptFeatures[1].properties, "crop_type")

\* ------------------------------------------------------------------------
\* The tokens of a signature (SpecMatch)
\* ------------------------------------------------------------------------

SignatureBuilt == matchPhase = "done" /\ IsFeatureCollectionValue(upload.fc)

\* the group tokens of the i-th uploaded feature
GroupTokens(i) == KeyParts(upload.fc.features[i].properties)

\* the token of the name/title/id group of the i-th uploaded feature, if it
\* resolves
FallbackToken(i) ==
  LET fallback == extractFirstMatch(upload.fc.features[i].properties,
                                    FALLBACK_PROPERTIES)
  IN  IF fallback = <<>> THEN <<>> ELSE << << "fb", fallback >> >>

\* C36 as claimed: a feature gives the joined group tokens when at least two
\* groups resolve and otherwise a fallback-only token; the signature is the
\* set of these tokens.
C36_GroupTokensOrFallbackOnly ==
  SignatureBuilt =>
    uploadSignature =
      { IF Len(GroupTokens(i)) >= 2 THEN GroupTokens(i) ELSE FallbackToken(i) :
          i \in 1 .. Len(upload.fc.features) } \ { NoKey }

\* C36: each feature gives at most one token: the joined group tokens when at
\* least two of the grower, farm and field groups resolve; otherwise, when
\* the name/title/id group resolves, the group token of the one group that
\* resolves (if any) joined with the fallback token; otherwise none. The
\* signature is the set of these tokens, so duplicates collapse.
C36_GroupTokensOrJoinedFallback ==
  SignatureBuilt =>
    /\ \A i \in 1 .. Len(upload.fc.features) :
         /\ Len(GroupTokens(i)) >= 2 => GroupTokens(i) \in uploadSignature
         /\ (Len(GroupTokens(i)) < 2 /\ FallbackToken(i) # <<>>) =>
              GroupTokens(i) \o FallbackToken(i) \in uploadSignature
    /\ \A token \in uploadSignature :
         \E i \in 1 .. Len(upload.fc.features) :
           \/ Len(GroupTokens(i)) >= 2 /\ token = GroupTokens(i)
           \/ /\ Len(GroupTokens(i)) < 2
              /\ FallbackToken(i) # <<>>
              /\ token = GroupTokens(i) \o FallbackToken(i)
    /\ Cardinality(uploadSignature) <= Len(upload.fc.features)

\* a signature with a fallback-only token and a token of one group joined
\* with the fallback
C36_Witness ==
  /\ SignatureBuilt
  /\ \E i, j \in 1 .. Len(upload.fc.features) :
       /\ Len(GroupTokens(i)) = 1 /\ FallbackToken(i) # <<>>
       /\ GroupTokens(i) \o FallbackToken(i) \in uploadSignature
       /\ Len(GroupTokens(j)) = 0 /\ FallbackToken(j) \in uploadSignature
  /\ Cardinality(uploadSignature) = 2

\* ten features give two tokens
DuplicateTokensCollapse ==
  /\ SignatureBuilt
  /\ Len(upload.fc.features) = 10
  /\ Cardinality(uploadSignature) = 2

\* a feature that gives no token: one group and no fallback
FeatureWithoutToken ==
  /\ SignatureBuilt
  /\ \E i \in 1 .. Len(upload.fc.features) :
       Len(GroupTokens(i)) = 1 /\ FallbackToken(i) = <<>>
  /\ uploadSignature = {}

\* ------------------------------------------------------------------------
\* The adaptive ingestFeatureCollection: termination, coverage, batch sizes
\* ------------------------------------------------------------------------

AdaptiveRuns == revision = "adaptive" /\ ingPhase = "running"

AdaptiveDone == revision = "adaptive" /\ ingPhase = "done"

\* C37: the adaptive ingestFeatureCollection returns or throws, for every
\* feature count, every chunkSize option (zero and negative values included)
\* and every pattern of remote successes, statement timeouts and other errors.
C37_AdaptiveIngestTerminates == AdaptiveRuns ~> AdaptiveDone

\* an invocation with chunkSize zero or negative that has returned after a
\* statement timeout and a loop over slices
C37_Witness ==
  /\ AdaptiveDone
  /\ optChunk \in { {0}, {0 - 7} }
  /\ outcome.kind = "value"
  /\ Len(callLog) > 1
  /\ nFeatures > MIN_CHUNK_SIZE

\* an invocation that has thrown after a bisection
ThrownAfterBisection ==
  /\ AdaptiveDone
  /\ outcome.kind = "error"
  /\ \E k \in DOMAIN callLog : callLog[k].result = "bisected"

AdaptiveReturned == AdaptiveDone /\ outcome.kind = "value"

\* the remote calls that succeeded, by their place in the log
OkCalls == { k \in DOMAIN callLog : callLog[k].result = "ok" }

\* the calls that carried feature x
CallsWith(x) == { k \in DOMAIN callLog : callLog[k].lo <= x /\ x < callLog[k].hi }

\* C38: when the adaptive ingestFeatureCollection returns normally, every
\* input feature was in exactly one successful remote call, the successful
\* calls cover the features in input order, and no feature is sent again
\* after a call that contained it has succeeded.
C38_EachFeatureSucceedsOnceInOrder ==
  AdaptiveReturned =>
    /\ \A x \in 0 .. (nFeatures - 1) :
         Cardinality(CallsWith(x) \cap OkCalls) = 1
    /\ \A j, k \in OkCalls : j < k => callLog[j].hi <= callLog[k].lo
    /\ \A j \in OkCalls : \A k \in DOMAIN callLog :
         j < k => callLog[j].hi <= callLog[k].lo

\* a normal return after a loop over slices and a bisection, with features
\* that were sent twice before they were accepted
C38_Witness ==
  /\ AdaptiveReturned
  /\ nFeatures > MIN_CHUNK_SIZE
  /\ Cardinality(OkCalls) >= 3
  /\ \E k \in DOMAIN callLog : callLog[k].result = "bisected"
  /\ \E x \in 0 .. (nFeatures - 1) : Cardinality(CallsWith(x)) >= 2

\* the invocation was given the default ceiling
DefaultCeiling == ChunkSizeOf(optChunk) = DEFAULT_CHUNK_SIZE

\* the batch sizes the calls of the log were made under
WorkingSizes == { callLog[k].chunk : k \in DOMAIN callLog }

\* C39: starting from the default ceiling of 250 the working batch size of
\* the adaptive ingestFeatureCollection takes the values 250, 125, 62 and 50
\* only, never a value below the floor of 50, and a feature is sent in at
\* most 4 remote calls.
C39_BatchSizesAndFourCalls ==
  revision = "adaptive" =>
    /\ \A size \in WorkingSizes : size >= MIN_CHUNK_SIZE
    /\ DefaultCeiling =>
         /\ WorkingSizes \subseteq { 250, 125, 62, 50 }
         /\ \A x \in 0 .. (nFeatures - 1) : Cardinality(CallsWith(x)) <= 4

\* a run from the default ceiling that threw a statement timeout at the floor
\* after a feature was sent under each of the four batch sizes
C39_Witness ==
  /\ AdaptiveDone
  /\ DefaultCeiling
  /\ outcome.kind = "error"
  /\ isStatementTimeout(outcome.error)
  /\ WorkingSizes = { 250, 125, 62, 50 }
  /\ \E x \in 0 .. (nFeatures - 1) : Cardinality(CallsWith(x)) = 4

\* ------------------------------------------------------------------------
\* The scopes of the local store (SpecScopes)
\* ------------------------------------------------------------------------

Restricted(entries, wanted) == [ k \in wanted |-> entries[k] ]

\* the cloud-scope entries of a store
CloudScope(entries) ==
  Restricted(entries, { k \in DOMAIN entries : isCloudKey(k) })

\* the anonymous-scope entries of a store
AnonScope(entries) ==
  Restricted(entries, { k \in DOMAIN entries : ~ isCloudKey(k) })

\* the entries that are not cloud-scope entries of the owner
NotOwnedBy(entries, userId) ==
  Restricted(entries,
             { k \in DOMAIN entries : ~ StartsWith(k, cloudPrefix(userId)) })

\* the invocation is under way
UnderWay(t) == tasks[t].pc \notin { "idle", "done", "threw" }

\* C40: migrateLocalToCloud never deletes or changes a cloud-scope entry, and
\* cacheCloudDatasets (in openAllDatasets) and clearCloudCache called for an
\* owner never delete or change an anonymous-scope entry or a cloud-scope
\* entry of another owner.
C40_ScopesDoNotInterfere ==
  [][ \A t \in TaskIds :
        UnderWay(t) =>
          /\ tasks[t].kind = "migrate" => CloudScope(store') = CloudScope(store)
          /\ tasks[t].kind = "open" =>
               NotOwnedBy(store', tasks[t].user) = NotOwnedBy(store, tasks[t].user)
          /\ tasks[t].kind = "clear" =>
               NotOwnedBy(store', tasks[t].prevUser)
                 = NotOwnedBy(store, tasks[t].prevUser) ]_vars

\* the cache of the user was rewritten and then cleared while the anonymous
\* entries and the entry of the other owner are where they were
C40_Witness ==
  /\ \E t \in TaskIds : tasks[t].kind = "open" /\ tasks[t].pc = "done"
                          /\ tasks[t].source = "cloud" /\ tasks[t].data # {}
  /\ \E t \in TaskIds : tasks[t].kind = "clear" /\ tasks[t].pc = "done"
  /\ CloudRowsOf("u1") = {}
  /\ cloudKey(OtherOwner, "d1") \in DOMAIN store
  /\ AnonScope(store) # << >>

\* a migration has moved an entry and the cloud-scope entries are there
MigratedBesideCache ==
  /\ \E t \in TaskIds : tasks[t].kind = "migrate" /\ tasks[t].pc = "done"
                          /\ tasks[t].moved > 0
  /\ cloudKey("u1", "d1") \in DOMAIN store
  /\ cloudKey(OtherOwner, "d1") \in DOMAIN store

====
